---- MODULE Spec2Model ----
(***************************************************************************)
(* A model of lego.py (greenery): the regular-expression term algebra      *)
(* (charclass, multiplier, mult, conc, pattern), its reduce() rewrite      *)
(* engine, the binary combinators, the printer regex() and the parser.     *)
(*                                                                         *)
(* Values.  A piece of lego is a record tagged by its field k.             *)
(*   charclass  [k, chars, negated]                                        *)
(*   multiplier [k, min, max, mandatory, optional]                         *)
(*   mult       [k, multiplicand, multiplier]                              *)
(*   conc       [k, mults]      mults is a sequence of mults               *)
(*   pattern    [k, concs]      concs is a set of concs                    *)
(* A bound of a multiplier is Python's "int or None": the sequence <<n>>   *)
(* for the integer n and the empty sequence for None (infinity).           *)
(* A raised exception is the record [k |-> "raise", exc |-> <class name>]; *)
(* a constructor or method handed a raised argument propagates it, as      *)
(* Python does when the evaluation of an argument raises.                  *)
(***************************************************************************)
EXTENDS Integers, Sequences, FiniteSets, TLC

VARIABLES
    op,     \* the operation last applied ("none" right after construction)
    arg1,   \* the piece of lego (or multiplier) the operation is applied to
    arg2,   \* the second operand of a binary operation
    text,   \* the input string of the parser, a sequence of characters
    out     \* what the operation returned, or the exception it raised

vars == <<op, arg1, arg2, text, out>>

(***************************************************************************)
(* Exceptions                                                              *)
(***************************************************************************)
Raise(e) == [k |-> "raise", exc |-> e]

IsRaise(v) == v.k = "raise"

\* the first raised element of a sequence of evaluated arguments
FirstRaise(s) == s[CHOOSE i \in 1..Len(s) : IsRaise(s[i]) /\ \A j \in 1..(i-1) : ~IsRaise(s[j])]

AnyRaise(s) == \E i \in 1..Len(s) : IsRaise(s[i])

(***************************************************************************)
(* int-or-None                                                             *)
(***************************************************************************)
None == <<>>

Fin(n) == <<n>>

IsNone(b) == b = <<>>

Val(b) == b[1]

Min2(a, b) == IF a <= b THEN a ELSE b

(***************************************************************************)
(* multiplier                                                              *)
(***************************************************************************)
\* a constructor that stores max as the optional part
multiplier_OptionalIsMax(min, max) ==
    IF IsNone(min)
    THEN IF IsNone(max)
         THEN [k |-> "multiplier", min |-> None, max |-> None,
               mandatory |-> None, optional |-> None]
         ELSE Raise("Exception")
    ELSE IF Val(min) < 0 \/ (~IsNone(max) /\ Val(max) < Val(min))
         THEN Raise("Exception")
         ELSE [k |-> "multiplier", min |-> min, max |-> max,
               mandatory |-> min, optional |-> max]

\* a constructor that stores whatever pair it is handed
multiplier_Unchecked(min, max) ==
    [k |-> "multiplier", min |-> min, max |-> max, mandatory |-> min,
     optional |-> IF IsNone(max) \/ IsNone(min) THEN None ELSE Fin(Val(max) - Val(min))]

\* multiplier.__init__: the derived view, or the exception of a bad pair
multiplier(min, max) ==
    IF IsNone(min)
    THEN IF IsNone(max)
         THEN [k |-> "multiplier", min |-> None, max |-> None,
               mandatory |-> None, optional |-> None]
         ELSE Raise("Exception")
    ELSE IF Val(min) < 0
         THEN Raise("Exception")
         ELSE IF IsNone(max)
              THEN [k |-> "multiplier", min |-> min, max |-> None,
                    mandatory |-> min, optional |-> None]
              ELSE IF Val(max) < Val(min)
                   THEN Raise("Exception")
                   ELSE [k |-> "multiplier", min |-> min, max |-> max,
                         mandatory |-> min, optional |-> Fin(Val(max) - Val(min))]

zero == multiplier(Fin(0), Fin(0))

qm == multiplier(Fin(0), Fin(1))

one == multiplier(Fin(1), Fin(1))

star == multiplier(Fin(0), None)

plus == multiplier(Fin(1), None)

inf == multiplier(None, None)

\* a product that adds the bounds
multiplier_mul_Adds(self, other) ==
    IF IsRaise(self) THEN self ELSE IF IsRaise(other) THEN other ELSE
    LET min == IF IsNone(self.min) \/ IsNone(other.min) THEN None
               ELSE Fin(Val(self.min) + Val(other.min))
        max == IF IsNone(self.max) \/ IsNone(other.max) THEN None
               ELSE Fin(Val(self.max) + Val(other.max))
    IN  multiplier(min, max)

\* multiplier.__mul__
multiplier_mul(self, other) ==
    IF IsRaise(self) THEN self ELSE IF IsRaise(other) THEN other ELSE
    LET min == IF IsNone(self.min) \/ IsNone(other.min) THEN None
               ELSE Fin(Val(self.min) * Val(other.min))
        max == IF IsNone(self.max) \/ IsNone(other.max) THEN None
               ELSE Fin(Val(self.max) * Val(other.max))
    IN  multiplier(min, max)

\* an addition that multiplies the bounds
multiplier_add_Times(self, other) == multiplier_mul(self, other)

\* multiplier.__add__
multiplier_add(self, other) ==
    IF IsRaise(self) THEN self ELSE IF IsRaise(other) THEN other ELSE
    LET min == IF IsNone(self.min) \/ IsNone(other.min) THEN None
               ELSE Fin(Val(self.min) + Val(other.min))
        max == IF IsNone(self.max) \/ IsNone(other.max) THEN None
               ELSE Fin(Val(self.max) + Val(other.max))
    IN  multiplier(min, max)

\* a component difference in which None minus None stays None
SubComponent_NoneStays(a, b) ==
    IF IsNone(a) THEN [ok |-> TRUE, v |-> None]
    ELSE IF IsNone(b) THEN [ok |-> FALSE, v |-> None]
         ELSE [ok |-> TRUE, v |-> Fin(Val(a) - Val(b))]

\* one component of multiplier.__sub__ (lines 742-751 and 753-762): the
\* difference, or "raise" for a finite value minus None
SubComponent(a, b) ==
    IF IsNone(b)
    THEN IF IsNone(a) THEN [ok |-> TRUE, v |-> Fin(0)] ELSE [ok |-> FALSE, v |-> None]
    ELSE IF IsNone(a) THEN [ok |-> TRUE, v |-> None]
         ELSE [ok |-> TRUE, v |-> Fin(Val(a) - Val(b))]

\* "turn info back into min/max", shared by __sub__ and __and__
FromMandatoryOptional(newMandatory, newOptional) ==
    IF IsNone(newMandatory)
    THEN IF IsNone(newOptional)
         THEN multiplier(None, None)
         ELSE Raise("Exception")
    ELSE IF IsNone(newOptional)
         THEN multiplier(newMandatory, None)
         ELSE multiplier(newMandatory, Fin(Val(newMandatory) + Val(newOptional)))

\* multiplier.__sub__
multiplier_sub(self, other) ==
    IF IsRaise(self) THEN self ELSE IF IsRaise(other) THEN other ELSE
    LET newMandatory == SubComponent(self.mandatory, other.mandatory)
        newOptional  == SubComponent(self.optional, other.optional)
    IN  IF ~newMandatory.ok \/ ~newOptional.ok
        THEN Raise("Exception")
        ELSE FromMandatoryOptional(newMandatory.v, newOptional.v)

\* a common component that takes None for the smaller value
CommonComponent_NoneSmallest(a, b) ==
    IF IsNone(a) \/ IsNone(b) THEN None ELSE Fin(Min2(Val(a), Val(b)))

\* one component of multiplier.__and__ (lines 783-792 and 794-803)
CommonComponent(a, b) ==
    IF IsNone(a)
    THEN (IF IsNone(b) THEN None ELSE b)
    ELSE (IF IsNone(b) THEN a ELSE Fin(Min2(Val(a), Val(b))))

\* multiplier.__and__
multiplier_and(self, other) ==
    IF IsRaise(self) THEN self ELSE IF IsRaise(other) THEN other ELSE
    FromMandatoryOptional(CommonComponent(self.mandatory, other.mandatory),
                          CommonComponent(self.optional, other.optional))

\* the 36 assertions "A & B == C" of the tests on the six named multipliers
multiplier_and_tests ==
    << <<zero, zero, zero>>, <<zero, qm, zero>>, <<zero, one, zero>>,
       <<zero, star, zero>>, <<zero, plus, zero>>, <<zero, inf, zero>>,
       <<qm, zero, zero>>, <<qm, qm, qm>>, <<qm, one, zero>>,
       <<qm, star, qm>>, <<qm, plus, qm>>, <<qm, inf, qm>>,
       <<one, zero, zero>>, <<one, qm, zero>>, <<one, one, one>>,
       <<one, star, zero>>, <<one, plus, one>>, <<one, inf, one>>,
       <<star, zero, zero>>, <<star, qm, qm>>, <<star, one, zero>>,
       <<star, star, star>>, <<star, plus, star>>, <<star, inf, star>>,
       <<plus, zero, zero>>, <<plus, qm, qm>>, <<plus, one, one>>,
       <<plus, star, star>>, <<plus, plus, plus>>, <<plus, inf, plus>>,
       <<inf, zero, zero>>, <<inf, qm, qm>>, <<inf, one, one>>,
       <<inf, star, star>>, <<inf, plus, plus>>, <<inf, inf, inf>> >>

(***************************************************************************)
(* charclass                                                               *)
(***************************************************************************)
\* charclass.__init__
charclass(chars, negateMe) == [k |-> "charclass", chars |-> chars, negated |-> negateMe]

\* charclass.__invert__
charclass_invert(self) == charclass(self.chars, ~self.negated)

dot == charclass_invert(charclass({}, FALSE))

\* charclass.__or__ on two charclasses
charclass_union(self, other) ==
    IF self.negated
    THEN IF other.negated
         THEN charclass_invert(charclass(self.chars \cap other.chars, FALSE))
         ELSE charclass_invert(charclass(self.chars \ other.chars, FALSE))
    ELSE IF other.negated
         THEN charclass_invert(charclass(other.chars \ self.chars, FALSE))
         ELSE charclass(self.chars \cup other.chars, FALSE)

\* a subtraction that treats two negated classes as two positive ones
charclass_sub_AsPositive(self, other) ==
    IF self.negated /\ ~other.negated
    THEN charclass_invert(charclass(self.chars \cup other.chars, FALSE))
    ELSE IF ~self.negated /\ other.negated
         THEN charclass(self.chars \cap other.chars, FALSE)
         ELSE charclass(self.chars \ other.chars, FALSE)

\* charclass.__sub__
charclass_sub(self, other) ==
    IF self.negated
    THEN IF other.negated
         THEN charclass(other.chars \ self.chars, FALSE)
         ELSE charclass_invert(charclass(self.chars \cup other.chars, FALSE))
    ELSE IF other.negated
         THEN charclass(self.chars \cap other.chars, FALSE)
         ELSE charclass(self.chars \ other.chars, FALSE)

\* an intersection that intersects the listed symbols of two negated classes
charclass_intersection_NegatedCap(self, other) ==
    IF self.negated
    THEN IF other.negated
         THEN charclass_invert(charclass(self.chars \cap other.chars, FALSE))
         ELSE charclass(other.chars \ self.chars, FALSE)
    ELSE IF other.negated
         THEN charclass(self.chars \ other.chars, FALSE)
         ELSE charclass(self.chars \cap other.chars, FALSE)

\* charclass.__and__ on two charclasses
charclass_intersection(self, other) ==
    IF self.negated
    THEN IF other.negated
         THEN charclass_invert(charclass(self.chars \cup other.chars, FALSE))
         ELSE charclass(other.chars \ self.chars, FALSE)
    ELSE IF other.negated
         THEN charclass(self.chars \ other.chars, FALSE)
         ELSE charclass(self.chars \cap other.chars, FALSE)

\* charclass.issubset
charclass_issubset(self, other) ==
    IF self.negated
    THEN IF other.negated THEN other.chars \subseteq self.chars ELSE FALSE
    ELSE IF other.negated
         THEN self.chars \cap other.chars = {}
         ELSE self.chars \subseteq other.chars

(***************************************************************************)
(* mult, conc, pattern: constructors                                       *)
(***************************************************************************)
\* mult.__init__: the multiplicand is a charclass or a pattern, the
\* multiplier a multiplier
mult(multiplicand, m) ==
    IF IsRaise(multiplicand) THEN multiplicand
    ELSE IF IsRaise(m) THEN m
    ELSE IF multiplicand.k \notin {"charclass", "pattern"} THEN Raise("Exception")
    ELSE IF m.k # "multiplier" THEN Raise("Exception")
    ELSE [k |-> "mult", multiplicand |-> multiplicand, multiplier |-> m]

\* conc.__init__: every element is a mult
conc(mults) ==
    IF AnyRaise(mults) THEN FirstRaise(mults)
    ELSE IF \E i \in 1..Len(mults) : mults[i].k # "mult" THEN Raise("Exception")
    ELSE [k |-> "conc", mults |-> mults]

\* pattern.__init__: every element is a conc; the concs are kept as a set
pattern(concs) ==
    IF \E c \in concs : IsRaise(c) THEN CHOOSE c \in concs : IsRaise(c)
    ELSE IF \E c \in concs : c.k # "conc" THEN Raise("Exception")
    ELSE [k |-> "pattern", concs |-> concs]

emptystring == conc(<<>>)

nothing == pattern({})

(***************************************************************************)
(* mult: subtraction and common part                                       *)
(***************************************************************************)
\* mult.__sub__; an operand that is not a mult has no multiplicand
mult_sub(self, other) ==
    IF other.k # "mult" THEN Raise("AttributeError")
    ELSE IF other.multiplicand # self.multiplicand
    THEN Raise("NoCommonMultiplicandException")
    ELSE mult(self.multiplicand, multiplier_sub(self.multiplier, other.multiplier))

\* a common part that does not compare the multiplicands
mult_common_Unchecked(self, other) ==
    mult(self.multiplicand, multiplier_and(self.multiplier, other.multiplier))

\* mult.__and__ (the definition in force, lines 903-911) on two mults
mult_common(self, other) ==
    IF other.multiplicand # self.multiplicand
    THEN Raise("NoCommonMultiplicandException")
    ELSE mult(self.multiplicand, multiplier_and(self.multiplier, other.multiplier))

(***************************************************************************)
(* pattern: common prefix and suffix                                       *)
(***************************************************************************)
NoCommon == [k |-> "nocommon"]

Pair(first, second) == [k |-> "pair", first |-> first, second |-> second]

\* c.mults[0] when front, c.mults[-1] otherwise
EndMult(c, front) == IF front THEN c.mults[1] ELSE c.mults[Len(c.mults)]

\* c.mults[1:] when front, c.mults[:-1] otherwise
RestMults(c, front) ==
    IF front THEN SubSeq(c.mults, 2, Len(c.mults)) ELSE SubSeq(c.mults, 1, Len(c.mults) - 1)

\* the first loop of _multprefix / _multsuffix over the concs still to visit:
\* the common mult, or the exception raised on the way
RECURSIVE CommonMult(_, _, _, _)
CommonMult(todo, commonMult, front, exc) ==
    IF todo = {}
    THEN (IF commonMult = NoCommon THEN Raise(exc) ELSE commonMult)
    ELSE LET c == CHOOSE c \in todo : TRUE
             Common(m) ==
                 IF IsRaise(m)
                 THEN (IF m.exc = "NoCommonMultiplicandException" THEN Raise(exc) ELSE m)
                 ELSE IF m.multiplier = zero
                      THEN Raise(exc)
                      ELSE CommonMult(todo \ {c}, m, front, exc)
         IN  IF Len(c.mults) = 0
             THEN Raise(exc)
             ELSE Common(IF commonMult = NoCommon
                         THEN EndMult(c, front)
                         ELSE mult_common(commonMult, EndMult(c, front)))

\* a leftover that keeps the end mult when nothing of it is left
Leftover_KeepsZero(c, commonMult, front) ==
    LET Subtracted(newMult1) ==
            IF IsRaise(newMult1) THEN newMult1
            ELSE IF front
                 THEN conc(<<newMult1>> \o RestMults(c, front))
                 ELSE conc(RestMults(c, front) \o <<newMult1>>)
    IN  Subtracted(mult_sub(EndMult(c, front), commonMult))

\* the second loop of _multprefix / _multsuffix: one conc's leftover
Leftover(c, commonMult, front) ==
    LET Subtracted(newMult1) ==
            IF IsRaise(newMult1) THEN newMult1
            ELSE IF newMult1.multiplier = zero
                 THEN conc(RestMults(c, front))
                 ELSE IF front
                      THEN conc(<<newMult1>> \o RestMults(c, front))
                      ELSE conc(RestMults(c, front) \o <<newMult1>>)
    IN  Subtracted(mult_sub(EndMult(c, front), commonMult))

\* pattern._multprefix: Pair(commonMult, leftovers), or the exception
pattern_multprefix(self) ==
    LET Built(commonMult, leftovers) ==
            IF IsRaise(leftovers) THEN leftovers ELSE Pair(commonMult, leftovers)
        Found(commonMult) ==
            IF IsRaise(commonMult) THEN commonMult
            ELSE Built(commonMult, pattern({Leftover(c, commonMult, TRUE) : c \in self.concs}))
    IN  Found(CommonMult(self.concs, NoCommon, TRUE, "NoMultPrefixException"))

\* pattern._multsuffix: Pair(leftovers, commonMult), or the exception
pattern_multsuffix(self) ==
    LET Built(commonMult, leftovers) ==
            IF IsRaise(leftovers) THEN leftovers ELSE Pair(leftovers, commonMult)
        Found(commonMult) ==
            IF IsRaise(commonMult) THEN commonMult
            ELSE Built(commonMult, pattern({Leftover(c, commonMult, FALSE) : c \in self.concs}))
    IN  Found(CommonMult(self.concs, NoCommon, FALSE, "NoMultSuffixException"))

\* the loop of pattern._concprefix
RECURSIVE ConcPrefixLoop(_, _)
ConcPrefixLoop(prefix, leftovers) ==
    LET Tried(r) ==
            IF IsRaise(r)
            THEN (IF r.exc = "NoMultPrefixException" THEN Pair(conc(prefix), leftovers) ELSE r)
            ELSE ConcPrefixLoop(Append(prefix, r.first), r.second)
    IN  Tried(pattern_multprefix(leftovers))

\* a _concprefix that lets the exception of its first _multprefix out
pattern_concprefix_Uncaught(self) ==
    LET Tried(r) == IF IsRaise(r) THEN r ELSE ConcPrefixLoop(<<r.first>>, r.second)
    IN  Tried(pattern_multprefix(self))

\* pattern._concprefix: Pair(prefix conc, leftovers)
pattern_concprefix(self) == ConcPrefixLoop(<<>>, self)

\* the loop of pattern._concsuffix
RECURSIVE ConcSuffixLoop(_, _)
ConcSuffixLoop(suffix, leftovers) ==
    LET Tried(r) ==
            IF IsRaise(r)
            THEN (IF r.exc = "NoMultSuffixException" THEN Pair(leftovers, conc(suffix)) ELSE r)
            ELSE ConcSuffixLoop(<<r.second>> \o suffix, r.first)
    IN  Tried(pattern_multsuffix(leftovers))

\* pattern._concsuffix: Pair(leftovers, suffix conc)
pattern_concsuffix(self) == ConcSuffixLoop(<<>>, self)

(***************************************************************************)
(* reduce()                                                                *)
(* Every reduce() method either returns self or returns X.reduce() for a   *)
(* rewritten X; depth counts the reduce() calls that are active, and a     *)
(* call deeper than MaxCallDepth ends as Python's RecursionError does.     *)
(***************************************************************************)
MaxCallDepth == 20

\* "bulk up" of mult.reduce: mult -> conc -> pattern
BulkToPattern(r) ==
    LET c == IF r.k = "mult" THEN conc(<<r>>) ELSE r
    IN  IF c.k = "conc" THEN pattern({c}) ELSE c

\* "bulk up" of conc.reduce: conc -> pattern, charclass/pattern -> mult
BulkToMult(r) ==
    LET p == IF r.k = "conc" THEN pattern({r}) ELSE r
    IN  IF p.k \in {"charclass", "pattern"} THEN mult(p, one) ELSE p

\* "bulk up" of pattern.reduce: charclass/pattern -> mult, mult -> conc
BulkToConc(r) ==
    LET m == IF r.k \in {"charclass", "pattern"} THEN mult(r, one) ELSE r
    IN  IF m.k = "mult" THEN conc(<<m>>) ELSE m

\* a mult that can never match: charclass() with a nonzero mandatory part
IsDeadMult(m) ==
    /\ m.multiplicand = charclass({}, FALSE)
    /\ (IsNone(m.multiplier.min) \/ Val(m.multiplier.min) > 0)

\* a merge that keeps one charclass of the group and forgets the others
MergeAll_First(ccs) == CHOOSE c \in ccs : TRUE

\* the union of a non-empty set of charclasses, one |= at a time
RECURSIVE MergeAll(_)
MergeAll(ccs) ==
    LET c == CHOOSE c \in ccs : TRUE
    IN  IF ccs = {c} THEN c ELSE charclass_union(MergeAll(ccs \ {c}), c)

\* the concs pattern.reduce merges: one mult over a charclass
IsSingleCharclass(c) == Len(c.mults) = 1 /\ c.mults[1].multiplicand.k = "charclass"

\* a merge that would rebuild the pattern although no charclass was merged
MergeChanged_Always(singles, keys) == singles # {}

\* isChanged of pattern.reduce: some multiplier key met a second charclass
MergeChanged(singles, keys) == Cardinality(singles) > Cardinality(keys)

RECURSIVE reduce(_, _)

\* a mult.reduce that tries "multiplier is one" before it looks for an empty
\* conc in the multiplicand
mult_reduce_OneFirst(self, depth) ==
    LET x == self.multiplicand
        m == self.multiplier
    IN  IF m = one
        THEN reduce(x, depth + 1)
        ELSE IF x.k = "pattern" /\ emptystring \in x.concs
        THEN reduce(mult(pattern(x.concs \ {emptystring}), multiplier_mul(m, qm)), depth + 1)
        ELSE IF m = zero
        THEN reduce(charclass({}, FALSE), depth + 1)
        ELSE IF x = nothing
        THEN (IF m.min = Fin(0)
              THEN reduce(emptystring, depth + 1)
              ELSE reduce(charclass({}, FALSE), depth + 1))
        ELSE LET reducedMultiplicand == BulkToPattern(reduce(x, depth + 1))
             IN  IF reducedMultiplicand # x
                 THEN reduce(mult(reducedMultiplicand, m), depth + 1)
                 ELSE IF x.k = "pattern" /\ Cardinality(x.concs) = 1
                         /\ Len((CHOOSE c \in x.concs : TRUE).mults) = 1
                      THEN LET singleton == CHOOSE c \in x.concs : TRUE
                           IN  reduce(mult(singleton.mults[1].multiplicand,
                                           multiplier_mul(singleton.mults[1].multiplier, m)),
                                      depth + 1)
                      ELSE self

\* mult.reduce
mult_reduce(self, depth) ==
    LET x == self.multiplicand
        m == self.multiplier
    IN  IF x.k = "pattern" /\ emptystring \in x.concs
        THEN reduce(mult(pattern(x.concs \ {emptystring}), multiplier_mul(m, qm)), depth + 1)
        ELSE IF m = zero
        THEN reduce(charclass({}, FALSE), depth + 1)
        ELSE IF x = nothing
        THEN (IF m.min = Fin(0)
              THEN reduce(emptystring, depth + 1)
              ELSE reduce(charclass({}, FALSE), depth + 1))
        ELSE IF m = one
        THEN reduce(x, depth + 1)
        ELSE LET reducedMultiplicand == BulkToPattern(reduce(x, depth + 1))
             IN  IF reducedMultiplicand # x
                 THEN reduce(mult(reducedMultiplicand, m), depth + 1)
                 ELSE IF x.k = "pattern" /\ Cardinality(x.concs) = 1
                         /\ Len((CHOOSE c \in x.concs : TRUE).mults) = 1
                      THEN LET singleton == CHOOSE c \in x.concs : TRUE
                           IN  reduce(mult(singleton.mults[1].multiplicand,
                                           multiplier_mul(singleton.mults[1].multiplier, m)),
                                      depth + 1)
                      ELSE self

\* a conc.reduce without the rule for a conc of one mult
conc_reduce_KeepsSingle(self, depth) ==
    LET n == Len(self.mults)
    IN  IF \E i \in 1..n : IsDeadMult(self.mults[i])
        THEN reduce(charclass({}, FALSE), depth + 1)
        ELSE LET reducedMults == [i \in 1..n |-> BulkToMult(reduce(self.mults[i], depth + 1))]
             IN  IF reducedMults # self.mults
                 THEN reduce(conc(reducedMults), depth + 1)
                 ELSE IF \E i \in 1..(n-1) : self.mults[i].multiplicand = self.mults[i+1].multiplicand
                 THEN LET i == CHOOSE i \in 1..(n-1) :
                                 /\ self.mults[i].multiplicand = self.mults[i+1].multiplicand
                                 /\ \A j \in 1..(i-1) :
                                       self.mults[j].multiplicand # self.mults[j+1].multiplicand
                          squished == mult(self.mults[i].multiplicand,
                                           multiplier_add(self.mults[i].multiplier,
                                                          self.mults[i+1].multiplier))
                      IN  reduce(conc(SubSeq(self.mults, 1, i-1) \o <<squished>>
                                      \o SubSeq(self.mults, i+2, n)), depth + 1)
                 ELSE LET Inline(i) == /\ self.mults[i].multiplier = one
                                       /\ self.mults[i].multiplicand.k = "pattern"
                                       /\ Cardinality(self.mults[i].multiplicand.concs) = 1
                      IN  IF \E i \in 1..n : Inline(i)
                          THEN LET i == CHOOSE i \in 1..n : Inline(i) /\ \A j \in 1..(i-1) : ~Inline(j)
                                   single == CHOOSE c \in self.mults[i].multiplicand.concs : TRUE
                               IN  reduce(conc(SubSeq(self.mults, 1, i-1) \o single.mults
                                               \o SubSeq(self.mults, i+1, n)), depth + 1)
                          ELSE self

\* conc.reduce
conc_reduce(self, depth) ==
    LET n == Len(self.mults)
    IN  IF \E i \in 1..n : IsDeadMult(self.mults[i])
        THEN reduce(charclass({}, FALSE), depth + 1)
        ELSE IF n = 1
        THEN reduce(self.mults[1], depth + 1)
        ELSE LET reducedMults == [i \in 1..n |-> BulkToMult(reduce(self.mults[i], depth + 1))]
             IN  IF reducedMults # self.mults
                 THEN reduce(conc(reducedMults), depth + 1)
                 ELSE IF \E i \in 1..(n-1) : self.mults[i].multiplicand = self.mults[i+1].multiplicand
                 THEN LET i == CHOOSE i \in 1..(n-1) :
                                 /\ self.mults[i].multiplicand = self.mults[i+1].multiplicand
                                 /\ \A j \in 1..(i-1) :
                                       self.mults[j].multiplicand # self.mults[j+1].multiplicand
                          squished == mult(self.mults[i].multiplicand,
                                           multiplier_add(self.mults[i].multiplier,
                                                          self.mults[i+1].multiplier))
                      IN  reduce(conc(SubSeq(self.mults, 1, i-1) \o <<squished>>
                                      \o SubSeq(self.mults, i+2, n)), depth + 1)
                 ELSE LET Inline(i) == /\ self.mults[i].multiplier = one
                                       /\ self.mults[i].multiplicand.k = "pattern"
                                       /\ Cardinality(self.mults[i].multiplicand.concs) = 1
                      IN  IF \E i \in 1..n : Inline(i)
                          THEN LET i == CHOOSE i \in 1..n : Inline(i) /\ \A j \in 1..(i-1) : ~Inline(j)
                                   single == CHOOSE c \in self.mults[i].multiplicand.concs : TRUE
                               IN  reduce(conc(SubSeq(self.mults, 1, i-1) \o single.mults
                                               \o SubSeq(self.mults, i+1, n)), depth + 1)
                          ELSE self

\* pattern.reduce
pattern_reduce(self, depth) ==
    IF \E c \in self.concs : \E i \in 1..Len(c.mults) : IsDeadMult(c.mults[i])
    THEN LET c == CHOOSE c \in self.concs : \E i \in 1..Len(c.mults) : IsDeadMult(c.mults[i])
         IN  reduce(pattern(self.concs \ {c}), depth + 1)
    ELSE IF Cardinality(self.concs) = 1
    THEN reduce(CHOOSE e \in self.concs : TRUE, depth + 1)
    ELSE LET reducedConcs == {BulkToConc(reduce(c, depth + 1)) : c \in self.concs}
         IN  IF reducedConcs # self.concs
             THEN reduce(pattern(reducedConcs), depth + 1)
             ELSE LET singles == {c \in self.concs : IsSingleCharclass(c)}
                      keys    == {c.mults[1].multiplier : c \in singles}
                      merged  == [key \in keys |->
                                    MergeAll({c.mults[1].multiplicand :
                                                c \in {s \in singles : s.mults[1].multiplier = key}})]
                      isChanged == MergeChanged(singles, keys)
                  IN  IF isChanged
                      THEN reduce(pattern((self.concs \ singles)
                                          \cup {conc(<<mult(merged[key], key)>>) : key \in keys}),
                                  depth + 1)
                      ELSE LET Suffixed(suf) ==
                                   IF IsRaise(suf) THEN suf
                                   ELSE IF suf.second # emptystring
                                   THEN reduce(conc(<<mult(suf.first, one)>> \o suf.second.mults),
                                               depth + 1)
                                   ELSE self
                               Prefixed(pre) ==
                                   IF IsRaise(pre) THEN pre
                                   ELSE IF pre.first # emptystring
                                   THEN reduce(conc(pre.first.mults \o <<mult(pre.second, one)>>),
                                               depth + 1)
                                   ELSE Suffixed(pattern_concsuffix(self))
                           IN  Prefixed(pattern_concprefix(self))

\* a reduce() whose rewrites return their result without reducing it again
reduce_OneStep(self, depth) ==
    IF IsRaise(self) THEN self
    ELSE IF depth >= 1 THEN self
    ELSE IF self.k = "mult" THEN mult_reduce(self, depth)
    ELSE IF self.k = "conc" THEN conc_reduce(self, depth)
    ELSE IF self.k = "pattern" THEN pattern_reduce(self, depth)
    ELSE self

\* x.reduce() for a piece x of any kind; charclass.reduce returns self
reduce(self, depth) ==
    IF IsRaise(self) THEN self
    ELSE IF depth > MaxCallDepth THEN Raise("RecursionError")
    ELSE IF self.k = "mult" THEN mult_reduce(self, depth)
    ELSE IF self.k = "conc" THEN conc_reduce(self, depth)
    ELSE IF self.k = "pattern" THEN pattern_reduce(self, depth)
    ELSE self

(***************************************************************************)
(* fsm(): the language of a piece over an alphabet                         *)
(* The acceptor library is an outside collaborator; an acceptor is         *)
(* modelled by the set of strings it accepts, up to MaxStrLen symbols.     *)
(***************************************************************************)
MaxStrLen == 3

Chars == {"a", "b"}

\* the extra symbol that stands for "everything else" (None in the source)
Other == "other"

Alphabet == Chars \cup {Other}

\* fsm.epsilon(alphabet)
Epsilon == {<<>>}

\* fsm concatenation, cut at MaxStrLen
Concat(L1, L2) == {s \o t : <<s, t>> \in {q \in L1 \X L2 : Len(q[1]) + Len(q[2]) <= MaxStrLen}}

RECURSIVE Power(_, _)
Power(L, n) == IF n = 0 THEN Epsilon ELSE Concat(Power(L, n - 1), L)

\* zero or more repetitions: a string of at most MaxStrLen symbols needs at
\* most MaxStrLen non-empty factors
KleeneStar(L) == UNION {Power(L \ Epsilon, n) : n \in 0..MaxStrLen}

\* fsm * (min, max); a bound is an int or None.  An infinite minimum leaves
\* only the strings made of finitely many non-empty factors, which needs the
\* empty string among the factors.
Repeat(L, min, max) ==
    IF IsNone(min)
    THEN (IF <<>> \in L THEN KleeneStar(L) ELSE {})
    ELSE IF IsNone(max)
         THEN Concat(Power(L, Val(min)), KleeneStar(L))
         ELSE UNION {Power(L, n) : n \in Val(min)..Val(max)}

\* charclass.fsm: the symbols of the alphabet that lead to the final state
charclass_fsm(self) ==
    {<<symbol>> : symbol \in {a \in Alphabet : (a \in self.chars) # self.negated}}

RECURSIVE fsm(_)

\* mult.fsm
mult_fsm(self) == Repeat(fsm(self.multiplicand), self.multiplier.min, self.multiplier.max)

\* conc.fsm: epsilon, then += each mult's fsm
RECURSIVE ConcFsm(_, _)
ConcFsm(mults, n) ==
    IF n = 0 THEN Epsilon ELSE Concat(ConcFsm(mults, n - 1), fsm(mults[n]))

conc_fsm(self) == ConcFsm(self.mults, Len(self.mults))

\* pattern.fsm: null, then |= each conc's fsm
pattern_fsm(self) == UNION {fsm(c) : c \in self.concs}

\* the strings of at most MaxStrLen symbols a piece accepts
fsm(self) ==
    IF self.k = "charclass" THEN charclass_fsm(self)
    ELSE IF self.k = "mult" THEN mult_fsm(self)
    ELSE IF self.k = "conc" THEN conc_fsm(self)
    ELSE pattern_fsm(self)

(***************************************************************************)
(* Strings                                                                 *)
(* A Python string is a sequence of characters, a character a string of    *)
(* length one ("VT" stands for the vertical tab, which has no escape       *)
(* here).  A method that returns a string returns [k |-> "str", s |-> seq] *)
(* so that its result can be told from a raised exception.                 *)
(***************************************************************************)
Str(chars) == [k |-> "str", s |-> chars]

\* the characters in code point order (the grave accent, which no table of
\* the source names, is left out)
Ascii ==
    << "\t", "\n", "VT", "\f", "\r",
       " ", "!", "\"", "#", "$", "%", "&", "'", "(", ")", "*", "+", ",", "-", ".", "/",
       "0", "1", "2", "3", "4", "5", "6", "7", "8", "9",
       ":", ";", "<", "=", ">", "?", "@",
       "A", "B", "C", "D", "E", "F", "G", "H", "I", "J", "K", "L", "M",
       "N", "O", "P", "Q", "R", "S", "T", "U", "V", "W", "X", "Y", "Z",
       "[", "\\", "]", "^", "_",
       "a", "b", "c", "d", "e", "f", "g", "h", "i", "j", "k", "l", "m",
       "n", "o", "p", "q", "r", "s", "t", "u", "v", "w", "x", "y", "z",
       "{", "|", "}", "~" >>

\* the position of a character in the order sorted() uses
Ord(char) == CHOOSE i \in 1..Len(Ascii) : Ascii[i] = char

\* string < string, as sorted() compares the texts of a pattern's concs
RECURSIVE StrLess(_, _)
StrLess(a, b) ==
    IF a = <<>> THEN b # <<>>
    ELSE IF b = <<>> THEN FALSE
    ELSE IF a[1] = b[1] THEN StrLess(Tail(a), Tail(b))
    ELSE Ord(a[1]) < Ord(b[1])

Range(f) == {f[i] : i \in DOMAIN f}

\* string.index(char), counted from 1
Index(string, char) == CHOOSE i \in 1..Len(string) : string[i] = char

Digits == <<"0", "1", "2", "3", "4", "5", "6", "7", "8", "9">>

\* str(n) of a non-negative integer
RECURSIVE str(_)
str(n) == IF n < 10 THEN <<Digits[n + 1]>> ELSE str(n \div 10) \o <<Digits[(n % 10) + 1]>>

\* int(digit)
int(digit) == Index(Digits, digit) - 1

\* string * n
RECURSIVE StrTimes(_, _)
StrTimes(string, n) == IF n <= 0 THEN <<>> ELSE string \o StrTimes(string, n - 1)

escapes ==
    ("\t" :> <<"\\", "t">>) @@ ("\n" :> <<"\\", "n">>) @@ ("VT" :> <<"\\", "v">>)
    @@ ("\f" :> <<"\\", "f">>) @@ ("\r" :> <<"\\", "r">>)

allSpecial == {"\\", "[", "]", "|", "(", ")", ".", "?", "*", "+", "{", "}"}

classSpecial == {"\\", "[", "]", "^", "-"}

allowableRanges ==
    { SubSeq(Ascii, Ord("A"), Ord("Z")),
      SubSeq(Ascii, Ord("a"), Ord("z")),
      SubSeq(Ascii, Ord("0"), Ord("9")) }

w == charclass(Range(SubSeq(Ascii, Ord("0"), Ord("9"))) \cup Range(SubSeq(Ascii, Ord("A"), Ord("Z")))
               \cup {"_"} \cup Range(SubSeq(Ascii, Ord("a"), Ord("z"))), FALSE)

d == charclass(Range(Digits), FALSE)

s == charclass({"\t", "\n", "VT", "\f", "\r", " "}, FALSE)

W == charclass_invert(w)

D == charclass_invert(d)

S == charclass_invert(s)

shorthand ==
    (w :> <<"\\", "w">>) @@ (d :> <<"\\", "d">>) @@ (s :> <<"\\", "s">>)
    @@ (W :> <<"\\", "W">>) @@ (D :> <<"\\", "D">>) @@ (S :> <<"\\", "S">>)
    @@ (dot :> <<".">>)

symbolic == (qm :> <<"?">>) @@ (one :> <<>>) @@ (star :> <<"*">>) @@ (plus :> <<"+">>)

(***************************************************************************)
(* regex(): the printer                                                    *)
(***************************************************************************)
\* escapeChar of charclass.escape
escapeChar(char) ==
    IF char \in classSpecial THEN <<"\\", char>>
    ELSE IF char \in DOMAIN escapes THEN escapes[char]
    ELSE <<char>>

\* "".join(escapeChar(char) for char in currentRange)
RECURSIVE EscapeAll(_)
EscapeAll(currentRange) ==
    IF currentRange = <<>> THEN <<>>
    ELSE escapeChar(Head(currentRange)) \o EscapeAll(Tail(currentRange))

\* recordRange of charclass.escape: what it appends to output
recordRange(currentRange) ==
    IF Len(currentRange) <= 3
    THEN EscapeAll(currentRange)
    ELSE escapeChar(currentRange[1]) \o <<"-">> \o escapeChar(currentRange[Len(currentRange)])

\* sorted(self.chars, key=str)
RECURSIVE SortedChars(_)
SortedChars(chars) ==
    IF chars = {} THEN <<>>
    ELSE LET c == CHOOSE c \in chars : \A e \in chars : Ord(c) <= Ord(e)
         IN  <<c>> \o SortedChars(chars \ {c})

\* the loop of charclass.escape over the sorted characters
RECURSIVE EscapeLoop(_, _, _)
EscapeLoop(todo, currentRange, output) ==
    IF todo = <<>> THEN output \o recordRange(currentRange)
    ELSE LET char == Head(todo)
             restart ==
                 /\ Len(currentRange) > 0
                 /\ IF \E r \in allowableRanges : char \in Range(r)
                    THEN LET superRange == CHOOSE r \in allowableRanges : char \in Range(r)
                             i == Index(superRange, char)
                         IN  i = 1 \/ superRange[i - 1] # currentRange[Len(currentRange)]
                    ELSE TRUE
         IN  IF restart
             THEN EscapeLoop(Tail(todo), <<char>>, output \o recordRange(currentRange))
             ELSE EscapeLoop(Tail(todo), Append(currentRange, char), output)

\* charclass.escape (the definition in force, the second one of the class)
charclass_escape(self) == EscapeLoop(SortedChars(self.chars), <<>>, <<>>)

\* charclass.regex
charclass_regex(self) ==
    IF self \in DOMAIN shorthand THEN Str(shorthand[self])
    ELSE IF Cardinality(self.chars) < 1 THEN Raise("NoRegexException")
    ELSE IF self.negated THEN Str(<<"[", "^">> \o charclass_escape(self) \o <<"]">>)
    ELSE IF Cardinality(self.chars) = 1
         THEN LET char == CHOOSE c \in self.chars : TRUE
              IN  IF char \in DOMAIN escapes THEN Str(escapes[char])
                  ELSE IF char \in allSpecial THEN Str(<<"\\", char>>)
                  ELSE Str(<<char>>)
    ELSE Str(<<"[">> \o charclass_escape(self) \o <<"]">>)

\* a multiplier.regex that prints a maximum of 0
multiplier_regex_PrintsZero(self) ==
    IF IsNone(self.min) THEN Raise("NoRegexException")
    ELSE IF self \in DOMAIN symbolic THEN Str(symbolic[self])
    ELSE IF IsNone(self.max) THEN Str(<<"{">> \o str(Val(self.min)) \o <<",", "}">>)
    ELSE IF self.min = self.max THEN Str(<<"{">> \o str(Val(self.min)) \o <<"}">>)
    ELSE Str(<<"{">> \o str(Val(self.min)) \o <<",">> \o str(Val(self.max)) \o <<"}">>)

\* multiplier.regex
multiplier_regex(self) ==
    IF self.max = Fin(0) \/ IsNone(self.min) THEN Raise("NoRegexException")
    ELSE IF self \in DOMAIN symbolic THEN Str(symbolic[self])
    ELSE IF IsNone(self.max) THEN Str(<<"{">> \o str(Val(self.min)) \o <<",", "}">>)
    ELSE IF self.min = self.max THEN Str(<<"{">> \o str(Val(self.min)) \o <<"}">>)
    ELSE Str(<<"{">> \o str(Val(self.min)) \o <<",">> \o str(Val(self.max)) \o <<"}">>)

RECURSIVE regex(_)

\* a mult.regex that does not put a pattern in parentheses
mult_regex_NoParentheses(self) ==
    LET inner == regex(self.multiplicand)
    IN  IF IsRaise(inner) THEN inner
        ELSE LET output == inner.s
                 suffix == multiplier_regex(self.multiplier)
             IN  IF IsRaise(suffix) THEN suffix
                 ELSE IF /\ self.multiplier.min = self.multiplier.max
                         /\ Len(output) * Val(self.multiplier.min) <= Len(output) + Len(suffix.s)
                      THEN Str(output \o StrTimes(output, Val(self.multiplier.min) - 1))
                      ELSE Str(output \o suffix.s)

\* mult.regex
mult_regex(self) ==
    LET inner == regex(self.multiplicand)
    IN  IF IsRaise(inner) THEN inner
        ELSE LET output == IF self.multiplicand.k = "pattern"
                           THEN <<"(">> \o inner.s \o <<")">>
                           ELSE inner.s
                 suffix == multiplier_regex(self.multiplier)
             IN  IF IsRaise(suffix) THEN suffix
                 ELSE IF /\ self.multiplier.min = self.multiplier.max
                         /\ Len(output) * Val(self.multiplier.min) <= Len(output) + Len(suffix.s)
                      THEN Str(output \o StrTimes(output, Val(self.multiplier.min) - 1))
                      ELSE Str(output \o suffix.s)

\* "".join(mult.regex() for mult in self.mults), the first n mults
RECURSIVE ConcRegex(_, _)
ConcRegex(mults, n) ==
    IF n = 0 THEN Str(<<>>)
    ELSE LET front == ConcRegex(mults, n - 1)
         IN  IF IsRaise(front) THEN front
             ELSE LET last == regex(mults[n])
                  IN  IF IsRaise(last) THEN last ELSE Str(front.s \o last.s)

\* conc.regex
conc_regex(self) == ConcRegex(self.mults, Len(self.mults))

\* "|".join(sorted(...)) over the texts of a set of concs; two concs with the
\* same text both appear
RECURSIVE JoinSorted(_)
JoinSorted(concs) ==
    LET c == CHOOSE c \in concs : \A e \in concs : ~StrLess(regex(e).s, regex(c).s)
    IN  IF concs = {c} THEN regex(c).s
        ELSE regex(c).s \o <<"|">> \o JoinSorted(concs \ {c})

\* pattern.regex
pattern_regex(self) ==
    IF Cardinality(self.concs) < 1 THEN Raise("NoRegexException")
    ELSE IF \E c \in self.concs : IsRaise(regex(c))
    THEN regex(CHOOSE c \in self.concs : IsRaise(regex(c)))
    ELSE Str(JoinSorted(self.concs))

\* x.regex() for a piece x of any kind
regex(self) ==
    IF self.k = "charclass" THEN charclass_regex(self)
    ELSE IF self.k = "mult" THEN mult_regex(self)
    ELSE IF self.k = "conc" THEN conc_regex(self)
    ELSE pattern_regex(self)

(***************************************************************************)
(* match() and parse(): the parser                                         *)
(* A matcher takes a string and an index counted from 0 and returns        *)
(* [k |-> "ok", v |-> value, i |-> next index], or the exception it        *)
(* raises.  What a method does after a call is a local operator of the     *)
(* call's result, applied to the call.                                     *)
(***************************************************************************)
MatchFailure == Raise("MatchFailureException")

\* try: attempt, except MatchFailureException: handler.  Any other
\* exception of the attempt passes through.
Except(attempt, handler) == IF attempt = MatchFailure THEN handler ELSE attempt

Ok(v, i) == [k |-> "ok", v |-> v, i |-> i]

\* lego.matchStatic; the value of a success is the static text itself
matchStatic(string, i, static) ==
    IF i + Len(static) <= Len(string) /\ SubSeq(string, i + 1, i + Len(static)) = static
    THEN Ok(static, i + Len(static))
    ELSE MatchFailure

\* lego.matchAny: any one character, or the first of the collection that is
\* found at i (the members of a collection are single characters)
matchAny(string, i, collection) ==
    IF i >= Len(string) THEN MatchFailure
    ELSE IF collection = None \/ string[i + 1] \in Range(collection)
    THEN Ok(string[i + 1], i + 1)
    ELSE MatchFailure

\* charclass.matchInternalChar
charclass_matchInternalChar(string, i) ==
    IF \E key \in DOMAIN escapes : ~IsRaise(matchStatic(string, i, escapes[key]))
    THEN LET key == CHOOSE key \in DOMAIN escapes : ~IsRaise(matchStatic(string, i, escapes[key]))
         IN  Ok(key, matchStatic(string, i, escapes[key]).i)
    ELSE IF \E char \in classSpecial : ~IsRaise(matchStatic(string, i, <<"\\", char>>))
    THEN LET char == CHOOSE char \in classSpecial : ~IsRaise(matchStatic(string, i, <<"\\", char>>))
         IN  Ok(char, matchStatic(string, i, <<"\\", char>>).i)
    ELSE LET any == matchAny(string, i, None)
         IN  IF IsRaise(any) THEN any
             ELSE IF any.v \in classSpecial THEN MatchFailure
             ELSE any

\* a matchRangeInternal that does not compare the two indices
charclass_matchRangeInternal_AnyOrder(string, i) ==
    LET Last(firstChar, last) ==
            IF IsRaise(last) THEN last
            ELSE IF \E r \in allowableRanges : firstChar \in Range(r)
            THEN LET allowableRange == CHOOSE r \in allowableRanges : firstChar \in Range(r)
                 IN  IF last.v \notin Range(allowableRange) THEN MatchFailure
                     ELSE Ok(SubSeq(allowableRange, Index(allowableRange, firstChar),
                                    Index(allowableRange, last.v)), last.i)
            ELSE MatchFailure
        Dash(firstChar, dash) ==
            IF IsRaise(dash) THEN dash
            ELSE Last(firstChar, charclass_matchInternalChar(string, dash.i))
        First(first) ==
            IF IsRaise(first) THEN first
            ELSE Except(Dash(first.v, matchStatic(string, first.i, <<"-">>)),
                        Ok(<<first.v>>, first.i))
    IN  First(charclass_matchInternalChar(string, i))

\* charclass.matchRangeInternal: one character or one span first-last
charclass_matchRangeInternal(string, i) ==
    LET Last(firstChar, last) ==
            IF IsRaise(last) THEN last
            ELSE IF \E r \in allowableRanges : firstChar \in Range(r)
            THEN LET allowableRange == CHOOSE r \in allowableRanges : firstChar \in Range(r)
                 IN  IF last.v \notin Range(allowableRange) THEN MatchFailure
                     ELSE LET firstIndex == Index(allowableRange, firstChar)
                              lastIndex == Index(allowableRange, last.v)
                          IN  IF firstIndex >= lastIndex THEN MatchFailure
                              ELSE Ok(SubSeq(allowableRange, firstIndex, lastIndex), last.i)
            ELSE MatchFailure
        Dash(firstChar, dash) ==
            IF IsRaise(dash) THEN dash
            ELSE Last(firstChar, charclass_matchInternalChar(string, dash.i))
        First(first) ==
            IF IsRaise(first) THEN first
            ELSE Except(Dash(first.v, matchStatic(string, first.i, <<"-">>)),
                        Ok(<<first.v>>, first.i))
    IN  First(charclass_matchInternalChar(string, i))

\* charclass.matchRangeInterior: range items until one fails
RECURSIVE RangeInteriorLoop(_, _, _)
RangeInteriorLoop(string, i, internals) ==
    LET Tried(internal) ==
            IF IsRaise(internal) THEN Ok(internals, i)
            ELSE RangeInteriorLoop(string, internal.i, internals \o internal.v)
    IN  Tried(charclass_matchRangeInternal(string, i))

charclass_matchRangeInterior(string, i) == RangeInteriorLoop(string, i, <<>>)

\* charclass.matchNegatedRange
charclass_matchNegatedRange(string, i) ==
    LET Close(chars, close) ==
            IF IsRaise(close) THEN close
            ELSE Ok(charclass_invert(charclass(Range(chars.v), FALSE)), close.i)
        Interior(chars) ==
            IF IsRaise(chars) THEN chars
            ELSE Close(chars, matchStatic(string, chars.i, <<"]">>))
        Open(open) ==
            IF IsRaise(open) THEN open
            ELSE Interior(charclass_matchRangeInterior(string, open.i))
    IN  Open(matchStatic(string, i, <<"[", "^">>))

\* charclass.matchRange
charclass_matchRange(string, i) ==
    LET Close(chars, close) ==
            IF IsRaise(close) THEN close
            ELSE Ok(charclass(Range(chars.v), FALSE), close.i)
        Interior(chars) ==
            IF IsRaise(chars) THEN chars
            ELSE Close(chars, matchStatic(string, chars.i, <<"]">>))
        Open(open) ==
            IF IsRaise(open) THEN open
            ELSE Interior(charclass_matchRangeInterior(string, open.i))
    IN  Open(matchStatic(string, i, <<"[">>))

\* charclass.match
charclass_match(string, i) ==
    IF \E key \in DOMAIN shorthand : ~IsRaise(matchStatic(string, i, shorthand[key]))
    THEN LET key == CHOOSE key \in DOMAIN shorthand : ~IsRaise(matchStatic(string, i, shorthand[key]))
         IN  Ok(key, matchStatic(string, i, shorthand[key]).i)
    ELSE Except(charclass_matchNegatedRange(string, i),
         Except(charclass_matchRange(string, i),
            IF \E key \in DOMAIN escapes : ~IsRaise(matchStatic(string, i, escapes[key]))
            THEN LET key == CHOOSE key \in DOMAIN escapes : ~IsRaise(matchStatic(string, i, escapes[key]))
                 IN  Ok(charclass({key}, FALSE), matchStatic(string, i, escapes[key]).i)
            ELSE IF \E char \in allSpecial : ~IsRaise(matchStatic(string, i, <<"\\", char>>))
            THEN LET char == CHOOSE char \in allSpecial : ~IsRaise(matchStatic(string, i, <<"\\", char>>))
                 IN  Ok(charclass({char}, FALSE), matchStatic(string, i, <<"\\", char>>).i)
            ELSE LET any == matchAny(string, i, None)
                 IN  IF IsRaise(any) THEN any
                     ELSE IF any.v \in allSpecial THEN MatchFailure
                     ELSE Ok(charclass({any.v}, FALSE), any.i)))

\* the while loop of multiplier.matchInteger
RECURSIVE IntegerLoop(_, _, _)
IntegerLoop(string, i, integer) ==
    LET digit == matchAny(string, i, Digits)
    IN  IF IsRaise(digit) THEN Ok(integer, i)
        ELSE IntegerLoop(string, digit.i, integer * 10 + int(digit.v))

\* multiplier.matchInteger
multiplier_matchInteger(string, i) ==
    IF ~IsRaise(matchStatic(string, i, <<"0">>))
    THEN Ok(0, matchStatic(string, i, <<"0">>).i)
    ELSE LET digit == matchAny(string, i, Tail(Digits))
         IN  IF IsRaise(digit) THEN digit
             ELSE IntegerLoop(string, digit.i, int(digit.v))

\* multiplier.match: {min,max}, then {min,}, then {min}, then ? * + or
\* nothing at all.  Only MatchFailureException moves on to the next form.
multiplier_match(string, i) ==
    LET Built(m, close) == IF IsRaise(m) THEN m ELSE Ok(m, close.i)
        BothClose(min, max, close) ==
            IF IsRaise(close) THEN close
            ELSE Built(multiplier(Fin(min.v), Fin(max.v)), close)
        BothMax(min, max) ==
            IF IsRaise(max) THEN max
            ELSE BothClose(min, max, matchStatic(string, max.i, <<"}">>))
        BothComma(min, comma) ==
            IF IsRaise(comma) THEN comma
            ELSE BothMax(min, multiplier_matchInteger(string, comma.i))
        BothMin(min) ==
            IF IsRaise(min) THEN min
            ELSE BothComma(min, matchStatic(string, min.i, <<",">>))
        Both(open) ==
            IF IsRaise(open) THEN open
            ELSE BothMin(multiplier_matchInteger(string, open.i))
        AtLeastClose(min, close) ==
            IF IsRaise(close) THEN close
            ELSE Ok(multiplier(Fin(min.v), None), close.i)
        AtLeastMin(min) ==
            IF IsRaise(min) THEN min
            ELSE AtLeastClose(min, matchStatic(string, min.i, <<",", "}">>))
        AtLeast(open) ==
            IF IsRaise(open) THEN open
            ELSE AtLeastMin(multiplier_matchInteger(string, open.i))
        ExactlyClose(min, close) ==
            IF IsRaise(close) THEN close
            ELSE Ok(multiplier(Fin(min.v), Fin(min.v)), close.i)
        ExactlyMin(min) ==
            IF IsRaise(min) THEN min
            ELSE ExactlyClose(min, matchStatic(string, min.i, <<"}">>))
        Exactly(open) ==
            IF IsRaise(open) THEN open
            ELSE ExactlyMin(multiplier_matchInteger(string, open.i))
    IN  Except(Both(matchStatic(string, i, <<"{">>)),
        Except(AtLeast(matchStatic(string, i, <<"{">>)),
        Except(Exactly(matchStatic(string, i, <<"{">>)),
            IF \E key \in DOMAIN symbolic :
                  symbolic[key] # <<>> /\ ~IsRaise(matchStatic(string, i, symbolic[key]))
            THEN LET key == CHOOSE key \in DOMAIN symbolic :
                                symbolic[key] # <<>> /\ ~IsRaise(matchStatic(string, i, symbolic[key]))
                 IN  Ok(key, matchStatic(string, i, symbolic[key]).i)
            ELSE Ok(one, matchStatic(string, i, symbolic[one]).i))))

RECURSIVE pattern_match(_, _)

\* mult.match: "(" pattern ")" or a charclass, then a multiplier
mult_match(string, i) ==
    LET Close(inner, close) == IF IsRaise(close) THEN close ELSE Ok(inner.v, close.i)
        Inner(inner) ==
            IF IsRaise(inner) THEN inner
            ELSE Close(inner, matchStatic(string, inner.i, <<")">>))
        Open(open) ==
            IF IsRaise(open) THEN open
            ELSE Inner(pattern_match(string, open.i))
        Multiplier(multiplicand, x) ==
            IF IsRaise(x) THEN x
            ELSE Ok(mult(multiplicand.v, x.v), x.i)
        Multiplicand(multiplicand) ==
            IF IsRaise(multiplicand) THEN multiplicand
            ELSE Multiplier(multiplicand, multiplier_match(string, multiplicand.i))
    IN  Multiplicand(Except(Open(matchStatic(string, i, <<"(">>)),
                            charclass_match(string, i)))

\* the loop of conc.match: mults until one fails to match
RECURSIVE ConcMatchLoop(_, _, _)
ConcMatchLoop(string, i, mults) ==
    LET Tried(x) ==
            IF x = MatchFailure THEN Ok(conc(mults), i)
            ELSE IF IsRaise(x) THEN x
            ELSE ConcMatchLoop(string, x.i, Append(mults, x.v))
    IN  Tried(mult_match(string, i))

\* conc.match
conc_match(string, i) == ConcMatchLoop(string, i, <<>>)

\* the loop of pattern.match: "|" conc, until one fails to match
RECURSIVE PatternMatchLoop(_, _, _)
PatternMatchLoop(string, i, concs) ==
    LET Tried(bar, x) ==
            IF x = MatchFailure THEN Ok(pattern(concs), bar.i)
            ELSE IF IsRaise(x) THEN x
            ELSE PatternMatchLoop(string, x.i, concs \cup {x.v})
        Bar(bar) ==
            IF IsRaise(bar) THEN Ok(pattern(concs), i)
            ELSE Tried(bar, conc_match(string, bar.i))
    IN  Bar(matchStatic(string, i, <<"|">>))

\* pattern.match
pattern_match(string, i) ==
    LET First(x) ==
            IF IsRaise(x) THEN x
            ELSE PatternMatchLoop(string, x.i, {x.v})
    IN  First(conc_match(string, i))

\* the error of pattern.parse: "Could not parse ... beyond index i"
ParseError(i) == [k |-> "raise", exc |-> "MatchFailureException", index |-> i]

\* pattern.parse
parse(string) ==
    LET Matched(result) ==
            IF IsRaise(result) THEN result
            ELSE IF result.i # Len(string) THEN ParseError(result.i)
            ELSE result.v
    IN  Matched(pattern_match(string, 0))

(***************************************************************************)
(* The binary combinators + and &, and - on mults                          *)
(***************************************************************************)
\* a conc.__add__ that returns the joined conc as it is
conc_add_Unreduced(self, other) == conc(self.mults \o BulkToConc(other).mults)

\* conc.__add__: bulk the other operand up to a conc, join the mults, reduce
conc_add(self, other) == reduce(conc(self.mults \o BulkToConc(other).mults), 0)

\* mult.__add__
mult_add(self, other) == conc_add(conc(<<self>>), other)

\* charclass.__add__
charclass_add(self, other) == mult_add(mult(self, one), other)

\* pattern.__add__
pattern_add(self, other) == mult_add(mult(self, one), other)

\* self + other for pieces of any kinds
lego_add(self, other) ==
    IF self.k = "charclass" THEN charclass_add(self, other)
    ELSE IF self.k = "mult" THEN mult_add(self, other)
    ELSE IF self.k = "conc" THEN conc_add(self, other)
    ELSE pattern_add(self, other)

\* combinedFsm.pattern(): the piece the acceptor library builds from the
\* intersection of two acceptors, known here by the strings it accepts
FromFsm(accepted) == [k |-> "fromfsm", accepts |-> accepted]

\* pattern.__and__.  A mult is bulked up to a conc; for a conc the code then
\* evaluates pattern(conc), the class and not the operand, which the pattern
\* constructor rejects.  A charclass is not bulked up and has no alphabet().
pattern_and(self, other) ==
    LET bulked == IF other.k = "mult" THEN conc(<<other>>) ELSE other
    IN  IF bulked.k = "conc" THEN Raise("Exception")
        ELSE IF bulked.k = "charclass" THEN Raise("AttributeError")
        ELSE FromFsm(fsm(self) \cap fsm(bulked))

\* conc.__and__
conc_and(self, other) == pattern_and(pattern({self}), other)

\* mult.__and__ (the definition in force, the second one of the class)
mult_and(self, other) ==
    IF other.k # "mult" THEN conc_and(conc(<<self>>), other)
    ELSE mult_common(self, other)

\* charclass.__and__
charclass_and(self, other) ==
    IF other.k # "charclass" THEN mult_and(mult(self, one), other)
    ELSE charclass_intersection(self, other)

\* self & other for pieces of any kinds
lego_and(self, other) ==
    IF self.k = "charclass" THEN charclass_and(self, other)
    ELSE IF self.k = "mult" THEN mult_and(self, other)
    ELSE IF self.k = "conc" THEN conc_and(self, other)
    ELSE pattern_and(self, other)

(***************************************************************************)
(* The pieces the operations are applied to                                *)
(***************************************************************************)
MaxBound == 2

MaxConcLen == 2

Bounds == {None} \cup {Fin(n) : n \in 0..MaxBound}

\* every multiplier the constructor accepts with bounds up to MaxBound
Multipliers == {m \in {multiplier(lo, hi) : lo \in Bounds, hi \in Bounds} : ~IsRaise(m)}

CharClasses == {charclass(cs, n) : cs \in SUBSET Chars, n \in BOOLEAN}

LeafMults == {mult(c, m) : c \in CharClasses, m \in Multipliers}

\* the mults the longer concs are made of
Atoms == {mult(charclass({c}, FALSE), m) : c \in Chars, m \in {one, qm, plus}}

RECURSIVE ConcsOver(_, _)
ConcsOver(atoms, n) ==
    IF n = 0 THEN {<<>>}
    ELSE ConcsOver(atoms, n - 1)
         \cup {Append(ms, m) : ms \in {q \in ConcsOver(atoms, n - 1) : Len(q) = n - 1}, m \in atoms}

Concs == {conc(ms) : ms \in ConcsOver(Atoms, MaxConcLen)}

Patterns == {nothing} \cup {pattern({c1, c2}) : c1 \in Concs, c2 \in Concs}

\* concs of at most one mult, over every multiplier and the empty charclass
SmallConcs ==
    {emptystring}
    \cup {conc(<<mult(c, m)>>) :
            c \in {charclass({"a"}, FALSE), charclass({"b"}, FALSE), charclass({}, FALSE)},
            m \in Multipliers}

SmallPatterns == {nothing} \cup {pattern({c1, c2}) : c1 \in SmallConcs, c2 \in SmallConcs}

WrappedPatterns == {mult(p, m) : p \in SmallPatterns, m \in Multipliers}

Pieces == CharClasses \cup LeafMults \cup Concs \cup Patterns \cup SmallPatterns \cup WrappedPatterns

NoValue == [k |-> "novalue"]

\* the operands of the binary combinators: every kind, the multipliers that
\* matter to the rewrites, the empty conc and the empty pattern
PairMults ==
    {mult(c, m) : c \in {charclass({"a"}, FALSE), charclass({"b"}, FALSE), charclass({}, FALSE)},
                  m \in Multipliers}

PairConcs == {conc(ms) : ms \in ConcsOver({mult(charclass({"a"}, FALSE), one),
                                            mult(charclass({"a"}, FALSE), qm),
                                            mult(charclass({"b"}, FALSE), one)}, MaxConcLen)}

PairPatterns ==
    {nothing}
    \cup {pattern({c1, c2}) :
            c1 \in {emptystring, conc(<<mult(charclass({"a"}, FALSE), one)>>),
                    conc(<<mult(charclass({"a"}, FALSE), inf)>>)},
            c2 \in {conc(<<mult(charclass({"a"}, FALSE), one)>>),
                    conc(<<mult(charclass({"b"}, FALSE), one)>>),
                    conc(<<mult(charclass({"a"}, FALSE), plus)>>),
                    conc(<<mult(charclass({"a"}, FALSE), one), mult(charclass({"b"}, FALSE), one)>>)}}

PairPieces ==
    CharClasses \cup PairMults \cup PairConcs \cup PairPatterns
    \cup {mult(p, m) : p \in PairPatterns, m \in {one, qm}}

(***************************************************************************)
(* The texts handed to the parser                                          *)
(***************************************************************************)
MaxTextLen == 4

MaxAffixLen == 2

TextChars == {"a", "b", "(", ")", "|", "?", "*", "[", "]", "^", "-", "\\", "."}

RECURSIVE StringsOver(_, _)
StringsOver(chars, n) ==
    IF n = 0 THEN {<<>>}
    ELSE StringsOver(chars, n - 1)
         \cup {Append(t, c) : t \in {q \in StringsOver(chars, n - 1) : Len(q) = n - 1}, c \in chars}

\* the counted multipliers {m}, {m,} and {m,n}, in order or not
Counted ==
    {<<"{">> \o str(m) \o <<"}">> : m \in 0..MaxBound}
    \cup {<<"{">> \o str(m) \o <<",", "}">> : m \in 0..MaxBound}
    \cup {<<"{">> \o str(m) \o <<",">> \o str(n) \o <<"}">> : m \in 0..MaxBound, n \in 0..MaxBound}

\* every short text, and the texts with one counted multiplier in the middle
Texts ==
    StringsOver(TextChars, MaxTextLen)
    \cup {head \o c \o rest :
            head \in StringsOver({"a", "b", "("}, MaxAffixLen),
            c \in Counted,
            rest \in StringsOver({")", "?", "a"}, MaxAffixLen)}

(***************************************************************************)
(* Specification Spec: one piece, then reduce() or regex() on it           *)
(***************************************************************************)
Init ==
    /\ op = "none"
    /\ arg1 \in Pieces
    /\ arg2 = NoValue
    /\ text = <<>>
    /\ out = NoValue

\* arg1.reduce()
Reduce ==
    /\ op = "none"
    /\ op' = "reduce"
    /\ out' = reduce(arg1, 0)
    /\ UNCHANGED <<arg1, arg2, text>>

\* arg1.regex()
Regex ==
    /\ op = "none"
    /\ op' = "regex"
    /\ out' = regex(arg1)
    /\ UNCHANGED <<arg1, arg2, text>>

Next == Reduce \/ Regex

Spec == Init /\ [][Next]_vars

(***************************************************************************)
(* Specification SpecPair: two pieces, then arg1 + arg2, arg1 & arg2 or,   *)
(* for two mults, arg1 - arg2                                              *)
(***************************************************************************)
InitPair ==
    /\ op = "none"
    /\ arg1 \in PairPieces
    /\ arg2 \in PairPieces
    /\ text = <<>>
    /\ out = NoValue

\* arg1 + arg2
Add ==
    /\ op = "none"
    /\ op' = "add"
    /\ out' = lego_add(arg1, arg2)
    /\ UNCHANGED <<arg1, arg2, text>>

\* arg1 & arg2
And ==
    /\ op = "none"
    /\ op' = "and"
    /\ out' = lego_and(arg1, arg2)
    /\ UNCHANGED <<arg1, arg2, text>>

\* arg1 - arg2 on mults
Sub ==
    /\ op = "none"
    /\ arg1.k = "mult"
    /\ arg2.k = "mult"
    /\ op' = "sub"
    /\ out' = mult_sub(arg1, arg2)
    /\ UNCHANGED <<arg1, arg2, text>>

NextPair == Add \/ And \/ Sub

SpecPair == InitPair /\ [][NextPair]_vars

(***************************************************************************)
(* Specification SpecMultiplier: two multipliers, then arg1 & arg2         *)
(***************************************************************************)
InitMultiplier ==
    /\ op = "none"
    /\ arg1 \in Multipliers
    /\ arg2 \in Multipliers
    /\ text = <<>>
    /\ out = NoValue

\* arg1 & arg2 on multipliers
MultiplierAnd ==
    /\ op = "none"
    /\ op' = "and"
    /\ out' = multiplier_and(arg1, arg2)
    /\ UNCHANGED <<arg1, arg2, text>>

NextMultiplier == MultiplierAnd

SpecMultiplier == InitMultiplier /\ [][NextMultiplier]_vars

(***************************************************************************)
(* Specification SpecParse: a text, then pattern.parse(text), then regex() *)
(* of the pattern it returned, then pattern.parse of that rendering        *)
(***************************************************************************)
InitParse ==
    /\ op = "none"
    /\ text \in Texts
    /\ arg1 = NoValue
    /\ arg2 = NoValue
    /\ out = NoValue

\* pattern.parse(text)
Parse ==
    /\ op = "none"
    /\ op' = "parse"
    /\ out' = parse(text)
    /\ UNCHANGED <<arg1, arg2, text>>

\* P.regex() of the pattern P that parse returned; arg1 keeps P
Render ==
    /\ op = "parse"
    /\ ~IsRaise(out)
    /\ op' = "render"
    /\ arg1' = out
    /\ out' = regex(out)
    /\ UNCHANGED <<arg2, text>>

\* pattern.parse of the rendering; arg2 keeps what it returned or raised
Reparse ==
    /\ op = "render"
    /\ ~IsRaise(out)
    /\ op' = "reparse"
    /\ arg2' = parse(out.s)
    /\ UNCHANGED <<arg1, text, out>>

NextParse == Parse \/ Render \/ Reparse

SpecParse == InitParse /\ [][NextParse]_vars

(***************************************************************************)
(* Claims                                                                  *)
(***************************************************************************)
\* C1: reduction soundness.  Whenever reduce() returns, the piece it returns
\* accepts exactly the strings the piece it was called on accepts.
C1_ReductionSound ==
    (op = "reduce" /\ ~IsRaise(out)) => fsm(out) = fsm(arg1)

\* C2: reduction idempotence.  Whenever reduce() returns, reducing the
\* result again returns the result itself.
C2_ReduceIdempotent ==
    (op = "reduce" /\ ~IsRaise(out)) => reduce(out, 0) = out

\* a reduce() that rewrote a pattern into a conc of two mults
C2_Witness ==
    /\ op = "reduce"
    /\ arg1.k = "pattern"
    /\ out.k = "conc"
    /\ Len(out.mults) = 2

\* C3: termination of reduce.  No reduce() runs out of call depth: the chain
\* of nested and trailing reduce() calls ends.
C3_ReduceTerminates ==
    op = "reduce" => out # Raise("RecursionError")

\* a reduce() that went through mult, conc and pattern rewrites in turn
C3_Witness ==
    /\ op = "reduce"
    /\ arg1.k = "mult"
    /\ arg1.multiplicand.k = "pattern"
    /\ Cardinality(arg1.multiplicand.concs) = 2
    /\ out.k = "mult"
    /\ out.multiplicand.k = "charclass"

\* C4, as claimed: the pattern P that parse returned always has a rendering,
\* the rendering parses, and the pattern parsed from it equals P after
\* reduction.
C4_RoundTrip ==
    /\ (op = "render" => ~IsRaise(out))
    /\ (op = "reparse" =>
          /\ ~IsRaise(arg2)
          /\ ~IsRaise(reduce(arg1, 0))
          /\ reduce(arg2, 0) = reduce(arg1, 0))

\* C4, amended: whenever the pattern P that parse returned has a rendering,
\* the rendering parses and the pattern parsed from it equals P after
\* reduction.
C4_RoundTripOfRendered ==
    op = "reparse" =>
        /\ ~IsRaise(arg2)
        /\ ~IsRaise(reduce(arg1, 0))
        /\ reduce(arg2, 0) = reduce(arg1, 0)

\* a round trip whose rendering is not the text parsed and whose second
\* pattern is not the first one
C4_Witness ==
    /\ op = "reparse"
    /\ out.s # text
    /\ arg2 # arg1
    /\ reduce(arg2, 0) = reduce(arg1, 0)

\* C5: outcomes of parse.  parse(text) returns the pattern matched from index
\* 0 with the whole text consumed, or raises MatchFailureException with the
\* index, short of the end, at which matching stopped; nothing else happens.
C5_ParseOutcomes ==
    op = "parse" =>
        \/ /\ out.k = "pattern"
           /\ pattern_match(text, 0) = Ok(out, Len(text))
        \/ /\ out.k = "raise"
           /\ out.exc = "MatchFailureException"
           /\ pattern_match(text, 0).k = "ok"
           /\ pattern_match(text, 0).i < Len(text)
           /\ out = ParseError(pattern_match(text, 0).i)

\* the terms regex() has no text for: the empty charclass that is not
\* negated, a multiplier with max = 0 or min = infinity, the empty pattern,
\* and whatever holds one of them
RECURSIVE C6_Unprintable(_)
C6_Unprintable(x) ==
    IF x.k = "charclass" THEN x.chars = {} /\ ~x.negated
    ELSE IF x.k = "multiplier" THEN x.max = Fin(0) \/ IsNone(x.min)
    ELSE IF x.k = "mult" THEN C6_Unprintable(x.multiplicand) \/ C6_Unprintable(x.multiplier)
    ELSE IF x.k = "conc" THEN \E i \in 1..Len(x.mults) : C6_Unprintable(x.mults[i])
    ELSE x.concs = {} \/ \E c \in x.concs : C6_Unprintable(c)

\* C6: render errors.  regex() raises NoRegexException exactly on the terms
\* that have no text and returns a text on every other term; the multiplier
\* of a mult alone raises exactly when its max is 0 or its min is infinity;
\* the negated empty charclass renders as ".".
C6_RenderErrors ==
    op = "regex" =>
        /\ IF C6_Unprintable(arg1) THEN out = Raise("NoRegexException") ELSE out.k = "str"
        /\ arg1.k = "mult" =>
              (multiplier_regex(arg1.multiplier) = Raise("NoRegexException"))
                  = C6_Unprintable(arg1.multiplier)
        /\ arg1.k = "mult" /\ ~C6_Unprintable(arg1.multiplier) =>
              multiplier_regex(arg1.multiplier).k = "str"
        /\ arg1 = charclass({}, TRUE) => out = Str(<<".">>)

\* a pattern that cannot be rendered because of a multiplier inside it,
\* although its charclasses can
C6_Witness ==
    /\ op = "regex"
    /\ arg1.k = "pattern"
    /\ out = Raise("NoRegexException")
    /\ \A c \in arg1.concs : \A i \in 1..Len(c.mults) : ~C6_Unprintable(c.mults[i].multiplicand)
    /\ \E c \in arg1.concs : \A i \in 1..Len(c.mults) : ~C6_Unprintable(c.mults[i])

\* the conc x + y is the reduction of: the mults of x bulked up, then the
\* mults of y bulked up
C7_Joined(x, y) == conc(BulkToConc(x).mults \o BulkToConc(y).mults)

\* C7, as claimed: x + y never raises and equals the reduction of the joined
\* conc; with emptystring on either side it equals x.reduce().
C7_Concatenation ==
    op = "add" =>
        /\ ~IsRaise(out)
        /\ out = reduce(C7_Joined(arg1, arg2), 0)
        /\ arg1 = emptystring => (out = lego_add(arg2, emptystring) /\ out = reduce(arg2, 0))
        /\ arg2 = emptystring => (out = lego_add(emptystring, arg1) /\ out = reduce(arg1, 0))

\* C7, amended: x + y does what the reduction of the joined conc does, the
\* exception it raises included; with emptystring on either side it is the
\* reduction of x bulked up to a conc.
C7_ConcatenationIsReduce ==
    op = "add" =>
        /\ out = reduce(C7_Joined(arg1, arg2), 0)
        /\ arg1 = emptystring =>
              (out = lego_add(arg2, emptystring) /\ out = reduce(BulkToConc(arg2), 0))
        /\ arg2 = emptystring =>
              (out = lego_add(emptystring, arg1) /\ out = reduce(BulkToConc(arg1), 0))

\* a charclass added to a pattern: both bulked up, the result a conc
C7_Witness ==
    /\ op = "add"
    /\ arg1.k = "charclass"
    /\ arg2.k = "pattern"
    /\ out.k = "conc"
    /\ out # C7_Joined(arg1, arg2)

\* C8: intersection bulk-up.  Whenever an intersection reaches pattern & other
\* with other a conc, or a mult bulked up to one, no error is raised.
C8_BulkUpRaisesNothing ==
    (/\ op = "and"
     /\ \/ arg2.k = "conc"
        \/ arg2.k = "mult" /\ arg1.k \in {"conc", "pattern"})
    => ~IsRaise(out)

C10_MinBound(a, b) ==
    IF IsNone(a) THEN b ELSE IF IsNone(b) THEN a ELSE Fin(Min2(Val(a), Val(b)))

\* C10: multiplier intersection.  A & B never raises; its mandatory part is
\* the smaller of the two mandatory parts and its optional part the smaller
\* of the two optional parts, infinity being larger than every number; on the
\* six named multipliers it gives the 36 entries of the tests' table.
C10_MultiplierIntersection ==
    op = "and" =>
        /\ out.k = "multiplier"
        /\ out.mandatory = C10_MinBound(arg1.mandatory, arg2.mandatory)
        /\ out.optional = C10_MinBound(arg1.optional, arg2.optional)
        /\ \A i \in 1..Len(multiplier_and_tests) :
              (arg1 = multiplier_and_tests[i][1] /\ arg2 = multiplier_and_tests[i][2])
                  => out = multiplier_and_tests[i][3]

\* qm & inf, an entry of the table where infinity meets a finite bound
C10_Witness ==
    /\ op = "and"
    /\ arg1 = qm
    /\ arg2 = inf
    /\ out = qm

(***************************************************************************)
(* Specification SpecArith: multipliers are constructed and combined with  *)
(* *, +, - and &, and a result is an operand of the next operation         *)
(***************************************************************************)
MaxOperand == 4

\* the bounds handed to the constructor: a bad one among them
ConstructorBounds == Bounds \cup {Fin(-1)}

\* multiplier(lo, hi)
Construct ==
    /\ op = "none"
    /\ \E lo \in ConstructorBounds, hi \in ConstructorBounds :
          /\ arg1' = lo
          /\ arg2' = hi
          /\ out' = multiplier(lo, hi)
    /\ op' = "construct"
    /\ UNCHANGED text

\* arg1 * arg2
MultiplierMul ==
    /\ op = "none"
    /\ op' = "mul"
    /\ out' = multiplier_mul(arg1, arg2)
    /\ UNCHANGED <<arg1, arg2, text>>

\* arg1 + arg2
MultiplierAdd ==
    /\ op = "none"
    /\ op' = "add"
    /\ out' = multiplier_add(arg1, arg2)
    /\ UNCHANGED <<arg1, arg2, text>>

\* arg1 - arg2
MultiplierSub ==
    /\ op = "none"
    /\ op' = "sub"
    /\ out' = multiplier_sub(arg1, arg2)
    /\ UNCHANGED <<arg1, arg2, text>>

\* (arg1 + arg2) - arg2
SubtractAdded ==
    /\ op = "add"
    /\ op' = "addsub"
    /\ out' = multiplier_sub(out, arg2)
    /\ UNCHANGED <<arg1, arg2, text>>

\* a multiplier whose finite bounds are small enough to be operated on again
IsSmallMultiplier(m) ==
    /\ m.k = "multiplier"
    /\ IF IsNone(m.min) THEN TRUE ELSE Val(m.min) <= MaxOperand
    /\ IF IsNone(m.max) THEN TRUE ELSE Val(m.max) <= MaxOperand

\* the result becomes the left operand of the next operation
Continue ==
    /\ op # "none"
    /\ IsSmallMultiplier(out)
    /\ op' = "none"
    /\ arg1' = out
    /\ arg2' \in Multipliers
    /\ out' = NoValue
    /\ UNCHANGED text

NextArith ==
    \/ Construct
    \/ MultiplierMul
    \/ MultiplierAdd
    \/ MultiplierSub
    \/ MultiplierAnd
    \/ SubtractAdded
    \/ Continue

SpecArith == InitMultiplier /\ [][NextArith]_vars

(***************************************************************************)
(* Multiplier arithmetic                                                   *)
(***************************************************************************)
\* n - m on bounds: None - None is 0, None - m is None; n - None has no value
C11_Difference(a, b) ==
    IF IsNone(a) THEN (IF IsNone(b) THEN Fin(0) ELSE None) ELSE Fin(Val(a) - Val(b))

\* C11: components of a multiplier subtraction.  A - B raises when a finite
\* mandatory or optional part of A meets an infinite one of B; a multiplier it
\* returns has the mandatory part "A's minus B's" and the optional part "A's
\* minus B's", with infinity - infinity = 0 and infinity - finite = infinity.
C11_SubtractionComponents ==
    op = "sub" =>
        /\ (~IsNone(arg1.mandatory) /\ IsNone(arg2.mandatory)) => IsRaise(out)
        /\ (~IsNone(arg1.optional) /\ IsNone(arg2.optional)) => IsRaise(out)
        /\ ~IsRaise(out) =>
              /\ out.k = "multiplier"
              /\ out.mandatory = C11_Difference(arg1.mandatory, arg2.mandatory)
              /\ out.optional = C11_Difference(arg1.optional, arg2.optional)

\* star - star: the optional parts are both infinite and leave 0
C11_Witness ==
    /\ op = "sub"
    /\ arg1 = star
    /\ arg2 = star
    /\ out = zero

\* C12: reconstruction after a multiplier subtraction.  When both component
\* differences exist, A - B is inf if the mandatory difference is infinite
\* and the optional difference is 0, and otherwise the multiplier with min =
\* mandatory and max = mandatory + optional.
C12_SubtractionReconstruction ==
    (/\ op = "sub"
     /\ ~(~IsNone(arg1.mandatory) /\ IsNone(arg2.mandatory))
     /\ ~(~IsNone(arg1.optional) /\ IsNone(arg2.optional)))
    => LET mandatory == C11_Difference(arg1.mandatory, arg2.mandatory)
           optional == C11_Difference(arg1.optional, arg2.optional)
       IN  IF IsNone(mandatory) /\ optional = Fin(0)
           THEN out = inf
           ELSE out = multiplier(mandatory,
                                 IF IsNone(mandatory) \/ IsNone(optional) THEN None
                                 ELSE Fin(Val(mandatory) + Val(optional)))

\* C13: subtraction inverts addition.  Whenever (A + B) - B does not raise,
\* it is A.
C13_SubtractionInvertsAddition ==
    (op = "addsub" /\ ~IsRaise(out)) => out = arg1

\* C13, for a B whose max is finite: (A + B) - B does not raise and is A
C13_SubtractionInvertsFiniteAddition ==
    (op = "addsub" /\ ~IsNone(arg2.max)) => out = arg1

\* (plus + qm) - qm = plus
C13_Witness ==
    /\ op = "addsub"
    /\ arg1 = plus
    /\ arg2 = qm
    /\ out = plus

\* C14: the derived view.  A constructed multiplier has mandatory = min and
\* optional = max - min, with infinity - n = infinity and infinity - infinity = 0.
C14_DerivedView ==
    (op = "construct" /\ out.k = "multiplier") =>
        /\ out.min = arg1
        /\ out.max = arg2
        /\ out.mandatory = out.min
        /\ out.optional = C11_Difference(out.max, out.min)

\* C14, with the view the constructor stores for inf: mandatory = min, and
\* optional = max - min when max is finite, infinity when max is infinite
C14_DerivedViewStored ==
    (op = "construct" /\ out.k = "multiplier") =>
        /\ out.min = arg1
        /\ out.max = arg2
        /\ out.mandatory = out.min
        /\ out.optional = IF IsNone(out.max) THEN None
                          ELSE Fin(Val(out.max) - Val(out.min))

\* multiplier(None, None), whose optional part is infinite
C14_Witness ==
    /\ op = "construct"
    /\ arg1 = None
    /\ arg2 = None
    /\ out.k = "multiplier"
    /\ out.optional = None

\* min >= 0 or infinite, min <= max, an infinite min has an infinite max
C15_WellFormed(m) ==
    /\ m.k = "multiplier"
    /\ IsNone(m.min) \/ Val(m.min) >= 0
    /\ IsNone(m.min) => IsNone(m.max)
    /\ (~IsNone(m.min) /\ ~IsNone(m.max)) => Val(m.min) <= Val(m.max)

\* C15: multiplier well-formedness.  Every operand is well-formed, and the
\* result of a construction or of *, +, - and & is a well-formed multiplier
\* or an exception.
C15_MultiplierWellFormed ==
    /\ op # "construct" => (C15_WellFormed(arg1) /\ C15_WellFormed(arg2))
    /\ op # "none" => (IsRaise(out) \/ C15_WellFormed(out))

\* qm - one has the mandatory part -1 and raises
C15_Witness ==
    /\ op = "sub"
    /\ arg1 = qm
    /\ arg2 = one
    /\ IsRaise(out)

(***************************************************************************)
(* Specification SpecCharclass: two charclasses, then one set operation    *)
(***************************************************************************)
\* the symbols a charclass of this specification lists
ClassChars == {"a", "b", "c"}

ClassUniverse == {charclass(cs, n) : cs \in SUBSET ClassChars, n \in BOOLEAN}

\* the value of a method that returns True or False
Bool(b) == [k |-> "bool", v |-> b]

InitCharclass ==
    /\ op = "none"
    /\ arg1 \in ClassUniverse
    /\ arg2 \in ClassUniverse
    /\ text = <<>>
    /\ out = NoValue

\* arg1 | arg2
CharclassOr ==
    /\ op = "none"
    /\ op' = "or"
    /\ out' = charclass_union(arg1, arg2)
    /\ UNCHANGED <<arg1, arg2, text>>

\* arg1 & arg2
CharclassAnd ==
    /\ op = "none"
    /\ op' = "and"
    /\ out' = charclass_and(arg1, arg2)
    /\ UNCHANGED <<arg1, arg2, text>>

\* arg1 - arg2
CharclassSub ==
    /\ op = "none"
    /\ op' = "sub"
    /\ out' = charclass_sub(arg1, arg2)
    /\ UNCHANGED <<arg1, arg2, text>>

\* ~arg1
CharclassInvert ==
    /\ op = "none"
    /\ op' = "invert"
    /\ out' = charclass_invert(arg1)
    /\ UNCHANGED <<arg1, arg2, text>>

\* arg1.issubset(arg2)
CharclassIsSubset ==
    /\ op = "none"
    /\ op' = "issubset"
    /\ out' = Bool(charclass_issubset(arg1, arg2))
    /\ UNCHANGED <<arg1, arg2, text>>

\* (arg1 | arg2) | third, arg1 | (arg2 | third), and the same with &
CharclassChain ==
    /\ op = "none"
    /\ op' = "chain"
    /\ \E third \in ClassUniverse :
          out' = [k |-> "chain", third |-> third,
                  orLeft |-> charclass_union(charclass_union(arg1, arg2), third),
                  orRight |-> charclass_union(arg1, charclass_union(arg2, third)),
                  andLeft |-> charclass_and(charclass_and(arg1, arg2), third),
                  andRight |-> charclass_and(arg1, charclass_and(arg2, third))]
    /\ UNCHANGED <<arg1, arg2, text>>

NextCharclass ==
    \/ CharclassOr
    \/ CharclassAnd
    \/ CharclassSub
    \/ CharclassInvert
    \/ CharclassIsSubset
    \/ CharclassChain

SpecCharclass == InitCharclass /\ [][NextCharclass]_vars

(***************************************************************************)
(* Charclass operations                                                    *)
(***************************************************************************)
\* an ambient alphabet: the listed symbols and one further symbol
C16_Alphabet == ClassChars \cup {"further"}

\* the set a charclass denotes within the ambient alphabet
C16_Den(c) == IF c.negated THEN C16_Alphabet \ c.chars ELSE c.chars

\* C16: charclass operations are the set operations on the denoted sets.
\* A | B denotes the union, A & B the intersection, A - B the difference, ~A
\* the complement within the alphabet, and A.issubset(B) is true exactly when
\* A's set is a subset of B's.
C16_CharclassSetOperations ==
    /\ op = "or" => C16_Den(out) = C16_Den(arg1) \cup C16_Den(arg2)
    /\ op = "and" => C16_Den(out) = C16_Den(arg1) \cap C16_Den(arg2)
    /\ op = "sub" => C16_Den(out) = C16_Den(arg1) \ C16_Den(arg2)
    /\ op = "invert" => C16_Den(out) = C16_Alphabet \ C16_Den(arg1)
    /\ op = "issubset" => out.v = (C16_Den(arg1) \subseteq C16_Den(arg2))

\* [^ab] - [^bc] = [c], the subtraction of the tests with two negated classes
C16_Witness ==
    /\ op = "sub"
    /\ arg1 = charclass({"a", "b"}, TRUE)
    /\ arg2 = charclass({"b", "c"}, TRUE)
    /\ out = charclass({"c"}, FALSE)

\* C17: the laws of the charclass algebra, as equalities of charclasses.
\* De Morgan for | and &, commutativity and associativity of | and &, double
\* negation, and A - B = A & ~B.
C17_CharclassLaws ==
    /\ op = "or" =>
          /\ charclass_invert(out) = charclass_and(charclass_invert(arg1), charclass_invert(arg2))
          /\ out = charclass_union(arg2, arg1)
    /\ op = "and" =>
          /\ charclass_invert(out) = charclass_union(charclass_invert(arg1), charclass_invert(arg2))
          /\ out = charclass_and(arg2, arg1)
    /\ op = "chain" =>
          /\ out.orLeft = out.orRight
          /\ out.andLeft = out.andRight
    /\ op = "invert" => charclass_invert(out) = arg1
    /\ op = "sub" => out = charclass_and(arg1, charclass_invert(arg2))

\* ([a] & [^ab]) & [^c] with one positive and two negated classes
C17_Witness ==
    /\ op = "chain"
    /\ ~arg1.negated
    /\ arg2.negated
    /\ out.third.negated
    /\ arg1.chars # {}
    /\ out.andLeft = out.andRight

(***************************************************************************)
(* Specification SpecEquality: two argument lists, then the patterns or    *)
(* the concs built from them are compared                                  *)
(***************************************************************************)
MaxArgs == 3

\* the mults of the argument lists
ArgMults == {mult(charclass({"a"}, FALSE), one), mult(charclass({"b"}, FALSE), one),
             mult(charclass({"a"}, FALSE), qm)}

\* the argument lists of at most MaxArgs mults
ArgLists == UNION {[1..n -> ArgMults] : n \in 0..MaxArgs}

\* conc(m) for each mult m of an argument list
ConcArgs(args) == [i \in 1..Len(args) |-> conc(<<args[i]>>)]

\* a pattern whose constructor keeps its arguments as a tuple
pattern_init_Tuple(args) ==
    IF \E i \in 1..Len(args) : args[i].k # "conc" THEN Raise("Exception")
    ELSE [k |-> "pattern", concs |-> args]

\* pattern.__init__(*concs): the arguments become a frozenset
pattern_init(args) ==
    IF \E i \in 1..Len(args) : args[i].k # "conc" THEN Raise("Exception")
    ELSE pattern(Range(args))

\* conc.__init__(*mults): the arguments become a tuple
conc_init(args) ==
    IF \E i \in 1..Len(args) : args[i].k # "mult" THEN Raise("Exception")
    ELSE conc(args)

\* pattern.__eq__
pattern_eq(self, other) == self.k = other.k /\ self.concs = other.concs

\* conc.__eq__
conc_eq(self, other) == self.k = other.k /\ self.mults = other.mults

\* pattern.__hash__: the hash of the frozenset, a value the set determines
pattern_hash(self) == [k |-> "hash", of |-> "frozenset", value |-> self.concs]

\* conc.__hash__: the hash of the tuple, a value the tuple determines
conc_hash(self) == [k |-> "hash", of |-> "tuple", value |-> self.mults]

InitEquality ==
    /\ op = "none"
    /\ arg1 \in ArgLists
    /\ arg2 \in ArgLists
    /\ text = <<>>
    /\ out = NoValue

\* pattern(*concs1) == pattern(*concs2), and their hashes
ComparePatterns ==
    /\ op = "none"
    /\ op' = "patterns"
    /\ out' = [k |-> "compared",
               left |-> pattern_init(ConcArgs(arg1)),
               right |-> pattern_init(ConcArgs(arg2)),
               eq |-> pattern_eq(pattern_init(ConcArgs(arg1)), pattern_init(ConcArgs(arg2))),
               hashes |-> <<pattern_hash(pattern_init(ConcArgs(arg1))),
                            pattern_hash(pattern_init(ConcArgs(arg2)))>>]
    /\ UNCHANGED <<arg1, arg2, text>>

\* conc(*mults1) == conc(*mults2), and their hashes
CompareConcs ==
    /\ op = "none"
    /\ op' = "concs"
    /\ out' = [k |-> "compared",
               left |-> conc_init(arg1),
               right |-> conc_init(arg2),
               eq |-> conc_eq(conc_init(arg1), conc_init(arg2)),
               hashes |-> <<conc_hash(conc_init(arg1)), conc_hash(conc_init(arg2))>>]
    /\ UNCHANGED <<arg1, arg2, text>>

\* pattern(*concs1) == conc(*mults2) and conc(*mults2) == pattern(*concs1)
CompareMixed ==
    /\ op = "none"
    /\ op' = "mixed"
    /\ out' = [k |-> "compared",
               left |-> pattern_init(ConcArgs(arg1)),
               right |-> conc_init(arg2),
               eq |-> \/ pattern_eq(pattern_init(ConcArgs(arg1)), conc_init(arg2))
                      \/ conc_eq(conc_init(arg2), pattern_init(ConcArgs(arg1))),
               hashes |-> <<pattern_hash(pattern_init(ConcArgs(arg1))),
                            conc_hash(conc_init(arg2))>>]
    /\ UNCHANGED <<arg1, arg2, text>>

NextEquality == ComparePatterns \/ CompareConcs \/ CompareMixed

SpecEquality == InitEquality /\ [][NextEquality]_vars

(***************************************************************************)
(* Equality of patterns and of concs                                       *)
(***************************************************************************)
\* C18: a pattern is a set and a conc is a sequence.  Patterns built from
\* the same concs, in any order and with any duplicates, are equal and have
\* equal hashes; concs are equal only when they hold the same mults in the
\* same order; a pattern, the empty one included, is never equal to a conc.
C18_SetAndSequence ==
    /\ op = "patterns" =>
          ((Range(arg1) = Range(arg2)) => (out.eq /\ out.hashes[1] = out.hashes[2]))
    /\ op = "concs" => (out.eq => arg1 = arg2)
    /\ op = "mixed" => ~out.eq

\* pattern(a, b, a) and pattern(b, a): another order and a duplicate
C18_Witness ==
    /\ op = "patterns"
    /\ Len(arg1) = 3
    /\ Len(arg2) = 2
    /\ arg1[1] = arg2[2]
    /\ arg1[2] = arg2[1]
    /\ arg1[3] = arg1[1]
    /\ arg1[1] # arg1[2]
    /\ out.eq

(***************************************************************************)
(* The binary combinator | and the operator *                              *)
(***************************************************************************)
\* "other must be a pattern too" of pattern.__or__
BulkOrOperand(other) ==
    LET m == IF other.k = "charclass" THEN mult(other, one) ELSE other
        c == IF m.k = "mult" THEN conc(<<m>>) ELSE m
    IN  IF c.k = "conc" THEN pattern({c}) ELSE c

\* pattern.__or__
pattern_or(self, other) == reduce(pattern(self.concs \cup BulkOrOperand(other).concs), 0)

\* conc.__or__
conc_or(self, other) == pattern_or(pattern({self}), other)

\* mult.__or__
mult_or(self, other) == conc_or(conc(<<self>>), other)

\* charclass.__or__
charclass_or(self, other) ==
    IF other.k # "charclass" THEN mult_or(mult(self, one), other)
    ELSE charclass_union(self, other)

\* self | other for pieces of any kinds
lego_or(self, other) ==
    IF self.k = "charclass" THEN charclass_or(self, other)
    ELSE IF self.k = "mult" THEN mult_or(self, other)
    ELSE IF self.k = "conc" THEN conc_or(self, other)
    ELSE pattern_or(self, other)

\* charclass.__mul__, mult.__mul__, conc.__mul__ and pattern.__mul__
lego_mul(self, m) ==
    IF m = one THEN self
    ELSE IF self.k = "mult" THEN mult(self.multiplicand, multiplier_mul(self.multiplier, m))
    ELSE IF self.k = "conc" THEN mult(pattern({self}), m)
    ELSE mult(self, m)

(***************************************************************************)
(* Attribute assignment                                                    *)
(***************************************************************************)
\* an assignment that is carried out
lego_setattr_Assigns(self, name, value) ==
    [result |-> NoValue, piece |-> [self EXCEPT ![name] = value]]

\* lego.__setattr__: the exception raised, and the piece afterwards
lego_setattr(self, name, value) ==
    [result |-> Raise("Exception"), piece |-> self]

\* the attributes of a piece
Attributes(self) == DOMAIN self \ {"k"}

\* the values an assignment tries to store
AttributeValues == {NoValue, emptystring}

(***************************************************************************)
(* Specification SpecOperations: two pieces, then one of the operations of *)
(* a piece, or an attribute assignment                                     *)
(***************************************************************************)
\* arg1 | arg2
Or ==
    /\ op = "none"
    /\ op' = "or"
    /\ out' = lego_or(arg1, arg2)
    /\ UNCHANGED <<arg1, arg2, text>>

\* arg1 * m
Mul ==
    /\ op = "none"
    /\ arg1.k # "multiplier"
    /\ op' = "mul"
    /\ \E m \in {one, qm, star} : out' = lego_mul(arg1, m)
    /\ UNCHANGED <<arg1, arg2, text>>

\* ~arg1 for a charclass
Invert ==
    /\ op = "none"
    /\ arg1.k = "charclass"
    /\ op' = "invert"
    /\ out' = charclass_invert(arg1)
    /\ UNCHANGED <<arg1, arg2, text>>

\* arg1._multprefix()
MultPrefix ==
    /\ op = "none"
    /\ arg1.k = "pattern"
    /\ op' = "multprefix"
    /\ out' = pattern_multprefix(arg1)
    /\ UNCHANGED <<arg1, arg2, text>>

\* arg1._multsuffix()
MultSuffix ==
    /\ op = "none"
    /\ arg1.k = "pattern"
    /\ op' = "multsuffix"
    /\ out' = pattern_multsuffix(arg1)
    /\ UNCHANGED <<arg1, arg2, text>>

\* arg1._concprefix()
ConcPrefix ==
    /\ op = "none"
    /\ arg1.k = "pattern"
    /\ op' = "concprefix"
    /\ out' = pattern_concprefix(arg1)
    /\ UNCHANGED <<arg1, arg2, text>>

\* arg1._concsuffix()
ConcSuffix ==
    /\ op = "none"
    /\ arg1.k = "pattern"
    /\ op' = "concsuffix"
    /\ out' = pattern_concsuffix(arg1)
    /\ UNCHANGED <<arg1, arg2, text>>

\* arg1.name = value
SetAttr ==
    /\ op = "none"
    /\ op' = "setattr"
    /\ \E name \in Attributes(arg1), value \in AttributeValues :
          /\ out' = lego_setattr(arg1, name, value).result
          /\ arg1' = lego_setattr(arg1, name, value).piece
    /\ UNCHANGED <<arg2, text>>

NextOperations ==
    \/ Reduce
    \/ Regex
    \/ Add
    \/ Or
    \/ And
    \/ Sub
    \/ Mul
    \/ Invert
    \/ MultPrefix
    \/ MultSuffix
    \/ ConcPrefix
    \/ ConcSuffix
    \/ SetAttr

SpecOperations == InitPair /\ [][NextOperations]_vars

(***************************************************************************)
(* Immutability and the factorization signals                              *)
(***************************************************************************)
\* C19: immutability.  No step changes a piece: an attribute assignment
\* raises and leaves the piece as it was, and reduce, regex, +, |, &, -, *,
\* ~ and the prefix and suffix methods leave their operands as they were.
C19_Immutable ==
    [][/\ arg1' = arg1
       /\ arg2' = arg2
       /\ op' = "setattr" => IsRaise(out')]_vars

\* an attribute assignment on a pattern has raised
C19_Witness ==
    /\ op = "setattr"
    /\ arg1.k = "pattern"
    /\ arg1.concs # {}
    /\ IsRaise(out)

\* the two exceptions of the factorization
C20_Signals == {Raise("NoMultPrefixException"), Raise("NoMultSuffixException")}

\* C20: the factorization signals stay internal.  reduce(), +, |,
\* _concprefix(), _concsuffix() and every other operation but the direct
\* calls never raise NoMultPrefixException or NoMultSuffixException; a
\* direct _multprefix() raises only the former, a direct _multsuffix() only
\* the latter.
C20_SignalsStayInternal ==
    /\ op \notin {"multprefix", "multsuffix"} => out \notin C20_Signals
    /\ op = "multprefix" => out # Raise("NoMultSuffixException")
    /\ op = "multsuffix" => out # Raise("NoMultPrefixException")

\* a | b: reduce() went through _concprefix() on concs without a common mult
C20_Witness ==
    /\ op = "or"
    /\ arg1 = conc(<<mult(charclass({"a"}, FALSE), one), mult(charclass({"b"}, FALSE), one)>>)
    /\ arg2 = conc(<<mult(charclass({"b"}, FALSE), one), mult(charclass({"a"}, FALSE), one)>>)
    /\ out = pattern({arg1, arg2})
    /\ pattern_multprefix(out) = Raise("NoMultPrefixException")

(***************************************************************************)
(* Specification SpecFactor: a pattern of up to two concs over mults that  *)
(* share, or do not share, a prefix or a suffix; then one of the           *)
(* factorization methods, or reduce()                                      *)
(***************************************************************************)
\* the most concs of a pattern
MaxFactorConcs == 3

FactorAtoms ==
    {mult(charclass({"a"}, FALSE), m) :
        m \in {one, qm, star, plus, inf, multiplier(Fin(1), Fin(2)), multiplier(Fin(2), Fin(2))}}
    \cup {mult(charclass({"b"}, FALSE), one)}

FactorConcs == {conc(ms) : ms \in ConcsOver(FactorAtoms, MaxConcLen)}

\* the sets of at most n elements of a set
RECURSIVE SetsUpTo(_, _)
SetsUpTo(elements, n) ==
    IF n = 0 THEN {{}}
    ELSE LET smaller == SetsUpTo(elements, n - 1)
         IN  smaller \cup {q \cup {e} : q \in smaller, e \in elements}

FactorPatterns == {pattern(cs) : cs \in SetsUpTo(FactorConcs, MaxFactorConcs)}

InitFactor ==
    /\ op = "none"
    /\ arg1 \in FactorPatterns
    /\ arg2 = NoValue
    /\ text = <<>>
    /\ out = NoValue

\* the term pattern.reduce builds by splitting out the common prefix, or else
\* the common suffix, of the concs, before that term is reduced in turn;
\* NoValue when reduce() returns earlier or finds nothing in common
pattern_factored(self) ==
    IF \E c \in self.concs : \E i \in 1..Len(c.mults) : IsDeadMult(c.mults[i]) THEN NoValue
    ELSE IF Cardinality(self.concs) = 1 THEN NoValue
    ELSE IF {BulkToConc(reduce(c, 1)) : c \in self.concs} # self.concs THEN NoValue
    ELSE IF MergeChanged({c \in self.concs : IsSingleCharclass(c)},
                         {c.mults[1].multiplier : c \in {q \in self.concs : IsSingleCharclass(q)}})
    THEN NoValue
    ELSE LET Suffixed(suf) ==
                 IF IsRaise(suf) THEN suf
                 ELSE IF suf.second # emptystring
                 THEN conc(<<mult(suf.first, one)>> \o suf.second.mults)
                 ELSE NoValue
             Prefixed(pre) ==
                 IF IsRaise(pre) THEN pre
                 ELSE IF pre.first # emptystring
                 THEN conc(pre.first.mults \o <<mult(pre.second, one)>>)
                 ELSE Suffixed(pattern_concsuffix(self))
         IN  Prefixed(pattern_concprefix(self))

\* the step of arg1.reduce() that splits out a common prefix or suffix
Factor ==
    /\ op = "none"
    /\ arg1.k = "pattern"
    /\ op' = "factor"
    /\ out' = pattern_factored(arg1)
    /\ UNCHANGED <<arg1, arg2, text>>

NextFactor ==
    \/ Factor
    \/ MultPrefix
    \/ MultSuffix
    \/ ConcPrefix
    \/ ConcSuffix
    \/ Reduce

SpecFactor == InitFactor /\ [][NextFactor]_vars

(***************************************************************************)
(* The contract of _multprefix and _multsuffix                             *)
(***************************************************************************)
\* the intersection of a non-empty set of multipliers
RECURSIVE C21_Meet(_)
C21_Meet(ms) ==
    LET m == CHOOSE m \in ms : TRUE
    IN  IF ms = {m} THEN m ELSE multiplier_and(m, C21_Meet(ms \ {m}))

\* the first (front) or last mults of the concs of a pattern without an empty conc
C21_Ends(p, front) == {EndMult(c, front) : c \in p.concs}

\* the four cases in which the contract has the call fail
C21_Fails(p, front) ==
    \/ p.concs = {}
    \/ \E c \in p.concs : c.mults = <<>>
    \/ \E m1, m2 \in C21_Ends(p, front) : m1.multiplicand # m2.multiplicand
    \/ C21_Meet({m.multiplier : m \in C21_Ends(p, front)}) = zero

\* the common mult of the contract
C21_Common(p, front) ==
    mult((CHOOSE m \in C21_Ends(p, front) : TRUE).multiplicand,
         C21_Meet({m.multiplier : m \in C21_Ends(p, front)}))

\* one conc with the common mult subtracted from its end mult
C21_Rest(c, common, front) ==
    LET residue == multiplier_sub(EndMult(c, front).multiplier, common.multiplier)
        kept == IF residue = zero THEN <<>> ELSE <<mult(common.multiplicand, residue)>>
    IN  IF front THEN conc(kept \o RestMults(c, front)) ELSE conc(RestMults(c, front) \o kept)

\* what the contract has the call return or raise
C21_Expected(p, front) ==
    IF C21_Fails(p, front)
    THEN Raise(IF front THEN "NoMultPrefixException" ELSE "NoMultSuffixException")
    ELSE LET common == C21_Common(p, front)
             rest == [k |-> "pattern", concs |-> {C21_Rest(c, common, front) : c \in p.concs}]
         IN  IF front THEN Pair(common, rest) ELSE Pair(rest, common)

\* C21: the contract of _multprefix.  It raises NoMultPrefixException on the
\* empty pattern, on an empty conc, on first mults of different
\* multiplicands and on a zero intersection of the first multipliers;
\* otherwise it returns the common mult and the pattern of the concs with
\* that mult subtracted, a zero residue being dropped.  _multsuffix does
\* the same on the last mults.
C21_MultPrefixContract ==
    /\ op = "multprefix" => out = C21_Expected(arg1, TRUE)
    /\ op = "multsuffix" => out = C21_Expected(arg1, FALSE)

(***************************************************************************)
(* The contract of _concprefix and _concsuffix                             *)
(***************************************************************************)
\* the contract on the result r of p._concprefix()
C22_PrefixContract(p, r) ==
    /\ r.k = "pair"
    /\ r.first.k = "conc"
    /\ r.second.k = "pattern"
    /\ pattern_multprefix(r.second) = Raise("NoMultPrefixException")
    /\ LET step == pattern_multprefix(p)
       IN  IF step = Raise("NoMultPrefixException")
           THEN r = Pair(emptystring, p)
           ELSE /\ step.k = "pair"
                /\ pattern_concprefix(step.second).k = "pair"
                /\ r.first.mults = <<step.first>> \o pattern_concprefix(step.second).first.mults
                /\ r.second = pattern_concprefix(step.second).second
    /\ \A c \in p.concs : p.concs = {c} => r = Pair(c, pattern({emptystring}))

\* the contract on the result r of p._concsuffix()
C22_SuffixContract(p, r) ==
    /\ r.k = "pair"
    /\ r.first.k = "pattern"
    /\ r.second.k = "conc"
    /\ pattern_multsuffix(r.first) = Raise("NoMultSuffixException")
    /\ LET step == pattern_multsuffix(p)
       IN  IF step = Raise("NoMultSuffixException")
           THEN r = Pair(p, emptystring)
           ELSE /\ step.k = "pair"
                /\ pattern_concsuffix(step.first).k = "pair"
                /\ r.second.mults = pattern_concsuffix(step.first).second.mults \o <<step.second>>
                /\ r.first = pattern_concsuffix(step.first).first
    /\ \A c \in p.concs : p.concs = {c} => r = Pair(pattern({emptystring}), c)

\* C22: _concprefix and _concsuffix.  For every pattern the call returns,
\* without raising, the conc of the mults that repeated _multprefix
\* (_multsuffix) calls take off and the pattern left over; the pattern left
\* over has no common mult prefix (suffix), the conc is empty when there is
\* no common mult, and a pattern of one conc c gives c and
\* pattern(emptystring).
C22_ConcPrefixContract ==
    /\ op = "concprefix" => C22_PrefixContract(arg1, out)
    /\ op = "concsuffix" => C22_SuffixContract(arg1, out)

(***************************************************************************)
(* The number of mults before and after a common prefix is split out       *)
(***************************************************************************)
\* the mults of a term, counted across all nesting levels
RECURSIVE C23_TotalMults(_)
C23_TotalMults(term) ==
    LET RECURSIVE Sum(_)
        Sum(ms) == IF ms = <<>> THEN 0 ELSE C23_TotalMults(Head(ms)) + Sum(Tail(ms))
        RECURSIVE SumOver(_)
        SumOver(cs) ==
            IF cs = {} THEN 0
            ELSE LET c == CHOOSE c \in cs : TRUE IN C23_TotalMults(c) + SumOver(cs \ {c})
    IN  IF term.k = "mult" THEN 1 + C23_TotalMults(term.multiplicand)
        ELSE IF term.k = "conc" THEN Sum(term.mults)
        ELSE IF term.k = "pattern" THEN SumOver(term.concs)
        ELSE 0

\* pattern.reduce has split a prefix or a suffix out of arg1
C23_Factored == op = "factor" /\ out.k = "conc"

\* the mults split out: all of out but the mult over the leftovers
C23_Affix ==
    IF pattern_concprefix(arg1).first # emptystring
    THEN pattern_concprefix(arg1).first
    ELSE pattern_concsuffix(arg1).second

\* the affix is, mult for mult, the start (or the end) of every conc of arg1
C23_WholeMults ==
    LET k == Len(C23_Affix.mults)
    IN  \A c \in arg1.concs :
            /\ Len(c.mults) >= k
            /\ \/ SubSeq(c.mults, 1, k) = C23_Affix.mults
               \/ SubSeq(c.mults, Len(c.mults) - k + 1, Len(c.mults)) = C23_Affix.mults

C24_MultOverNothing ==
    (op = "reduce" /\ arg1.k = "mult" /\ arg1.multiplicand = nothing) =>
        out = IF arg1.multiplier.min = Fin(0) THEN emptystring ELSE charclass({}, FALSE)

\* C25: optionality factoring comes first in mult.reduce.  For every mult
\* whose multiplicand is a pattern holding the empty conc, reduce() equals
\* the reduce() of the mult of the pattern without the empty conc and the
\* multiplier times qm, whatever the multiplier (one and zero included).
C25_OptionalityFirst ==
    (/\ op = "reduce"
     /\ arg1.k = "mult"
     /\ arg1.multiplicand.k = "pattern"
     /\ emptystring \in arg1.multiplicand.concs) =>
        out = reduce(mult(pattern(arg1.multiplicand.concs \ {emptystring}),
                          multiplier_mul(arg1.multiplier, qm)), 0)

\* (a|){1} has become a?, not the pattern a| alone
C25_Witness ==
    /\ op = "reduce"
    /\ arg1 = mult(pattern({emptystring, conc(<<mult(charclass({"a"}, FALSE), one)>>)}), one)
    /\ out = mult(charclass({"a"}, FALSE), qm)
    /\ out # reduce(arg1.multiplicand, 0)

\* the product of two bounds: infinite as soon as one of them is
C26_Times(a, b) == IF IsNone(a) \/ IsNone(b) THEN None ELSE Fin(Val(a) * Val(b))

\* the mult is one whose multiplier is neither zero nor one and whose
\* multiplicand is an already reduced pattern of one conc of one mult
C26_Nested(m) ==
    /\ m.k = "mult"
    /\ m.multiplier \notin {zero, one}
    /\ m.multiplicand.k = "pattern"
    /\ Cardinality(m.multiplicand.concs) = 1
    /\ \A c \in m.multiplicand.concs : Len(c.mults) = 1
    /\ BulkToPattern(reduce(m.multiplicand, 0)) = m.multiplicand

\* C26: nested multipliers collapse.  For a mult whose multiplier m is
\* neither zero nor one and whose multiplicand is an already reduced pattern
\* of one conc of one mult (y, n), reduce() equals mult(y, n * m).reduce(),
\* the product taking min times min and max times max, infinite as soon as
\* one factor is.
C26_NestedCollapse ==
    (op = "reduce" /\ C26_Nested(arg1)) =>
        \A c \in arg1.multiplicand.concs :
            out = reduce(mult(c.mults[1].multiplicand,
                              multiplier(C26_Times(c.mults[1].multiplier.min, arg1.multiplier.min),
                                         C26_Times(c.mults[1].multiplier.max, arg1.multiplier.max))),
                         0)

\* (a{1,2}){2} has become a{2,4}
C26_Witness ==
    /\ op = "reduce"
    /\ C26_Nested(arg1)
    /\ arg1 = mult(pattern({conc(<<mult(charclass({"a"}, FALSE), multiplier(Fin(1), Fin(2)))>>)}),
                   multiplier(Fin(2), Fin(2)))
    /\ out = mult(charclass({"a"}, FALSE), multiplier(Fin(2), Fin(4)))

(***************************************************************************)
(* The merge of charclasses across the concs of a pattern                  *)
(***************************************************************************)
\* the charclass c matches the symbol ch (Other: every symbol not in Chars)
C27_Has(c, ch) == (ch \in c.chars) # c.negated

\* the charclass that matches what some charclass of the group matches
C27_Union(ccs) ==
    CHOOSE u \in CharClasses :
        \A ch \in Chars \cup {Other} : C27_Has(u, ch) <=> \E c \in ccs : C27_Has(c, ch)

\* pattern.reduce on p gets as far as the merge
C27_ReachesMerge(p) ==
    /\ p.k = "pattern"
    /\ \A c \in p.concs : \A i \in 1..Len(c.mults) : ~IsDeadMult(c.mults[i])
    /\ Cardinality(p.concs) # 1
    /\ {BulkToConc(reduce(c, 0)) : c \in p.concs} = p.concs

\* the concs of one mult over a charclass
C27_Singles(p) == {c \in p.concs : IsSingleCharclass(c)}

\* the pattern with every group of singles of one multiplier merged
C27_Merged(p) ==
    pattern((p.concs \ C27_Singles(p))
            \cup {conc(<<mult(C27_Union({c.mults[1].multiplicand :
                                            c \in {q \in C27_Singles(p) :
                                                     q.mults[1].multiplier = key}}),
                              key)>>) :
                    key \in {c.mults[1].multiplier : c \in C27_Singles(p)}})

\* some group has two members or more
C27_SomeGroup(p) ==
    \E c1, c2 \in C27_Singles(p) : c1 # c2 /\ c1.mults[1].multiplier = c2.mults[1].multiplier

\* C27: charclasses are merged across the concs.  Where pattern.reduce gets
\* as far as the merge and some multiplier has two or more concs of one
\* mult over a charclass, the result is the reduce() of the pattern with
\* each such group replaced by one conc over the union, the other concs
\* kept; where no group has two members nothing is rebuilt and the result
\* comes from the factoring of the pattern itself.  A pattern returned by
\* reduce() holds at most one such conc per multiplier.
C27_CharclassMerge ==
    /\ (op = "reduce" /\ C27_ReachesMerge(arg1)) =>
          IF C27_SomeGroup(arg1)
          THEN out = reduce(C27_Merged(arg1), 0)
          ELSE IF pattern_factored(arg1) = NoValue
          THEN out = arg1
          ELSE out = reduce(pattern_factored(arg1), 0)
    /\ (op = "reduce" /\ out.k = "pattern") => ~C27_SomeGroup(out)

\* a|b|ab has become [ab]|ab: the group of a and b is merged, ab is kept
C27_Witness ==
    /\ op = "reduce"
    /\ C27_ReachesMerge(arg1)
    /\ C27_SomeGroup(arg1)
    /\ arg1 = pattern({conc(<<mult(charclass({"a"}, FALSE), one)>>),
                       conc(<<mult(charclass({"b"}, FALSE), one)>>),
                       conc(<<mult(charclass({"a"}, FALSE), one),
                              mult(charclass({"b"}, FALSE), one)>>)})
    /\ C27_Merged(arg1) =
          pattern({conc(<<mult(charclass({"a", "b"}, FALSE), one)>>),
                   conc(<<mult(charclass({"a"}, FALSE), one),
                          mult(charclass({"b"}, FALSE), one)>>)})
    /\ out = reduce(C27_Merged(arg1), 0)

(***************************************************************************)
(* Specification SpecBracket: a bracket expression, then matchRangeInternal *)
(* on its first item, matchRange on the whole, or pattern.parse            *)
(***************************************************************************)
\* the most characters between the brackets
MaxBodyLen == 4

BracketChars == {"a", "c", "Z", "%", "-", "\\"}

BracketTexts == {<<"[">> \o body \o <<"]">> : body \in StringsOver(BracketChars, MaxBodyLen)}

InitBracket ==
    /\ op = "none"
    /\ text \in BracketTexts
    /\ arg1 = NoValue
    /\ arg2 = NoValue
    /\ out = NoValue

\* charclass.matchRangeInternal(text, 1): the item after the opening bracket
MatchRangeInternal ==
    /\ op = "none"
    /\ op' = "rangeinternal"
    /\ out' = charclass_matchRangeInternal(text, 1)
    /\ UNCHANGED <<arg1, arg2, text>>

\* charclass.matchRange(text, 0)
MatchRange ==
    /\ op = "none"
    /\ op' = "range"
    /\ out' = charclass_matchRange(text, 0)
    /\ UNCHANGED <<arg1, arg2, text>>

NextBracket ==
    \/ MatchRangeInternal
    \/ MatchRange
    \/ Parse

SpecBracket == InitBracket /\ [][NextBracket]_vars

(***************************************************************************)
(* The items X-Y of a bracket expression                                   *)
(***************************************************************************)
\* the text starts with [X-Y, X and Y characters that stand for themselves
C28_Item ==
    /\ Len(text) >= 5
    /\ text[2] \notin classSpecial
    /\ text[3] = "-"
    /\ text[4] \notin classSpecial

\* X and Y lie in one allowable range, X strictly before Y
C28_IsSpan ==
    \E r \in allowableRanges :
        /\ text[2] \in Range(r)
        /\ text[4] \in Range(r)
        /\ Index(r, text[2]) < Index(r, text[4])

\* the characters from X to Y
C28_Span ==
    LET r == CHOOSE r \in allowableRanges : text[2] \in Range(r)
    IN  {r[n] : n \in Index(r, text[2])..Index(r, text[4])}

\* the item is read as a span when it is one, and as X alone otherwise
C28_ItemRead ==
    (op = "rangeinternal" /\ C28_Item) =>
        IF C28_IsSpan
        THEN out.k = "ok" /\ Range(out.v) = C28_Span /\ out.i = 4
        ELSE out = Ok(<<text[2]>>, 2)

\* C28 as stated: the range fallback.  Inside [...] an item X-Y is a span
\* only when X and Y lie in one allowable range with X strictly before Y;
\* otherwise the item consumes X alone, the dash is then read literally and
\* the bracket expression still parses: [X-Y] is the charclass of X, the
\* dash and Y.
C28_RangeFallback ==
    /\ C28_ItemRead
    /\ (op = "range" /\ C28_Item /\ Len(text) = 5 /\ ~C28_IsSpan) =>
          out = Ok(charclass({text[2], "-", text[4]}, FALSE), 5)

\* C28 as the code has it: after the item has consumed X alone the dash is
\* not accepted as a character of the class (it has to be written \-), so
\* matchRange fails on every [X-Y... that is no span and pattern.parse
\* raises MatchFailureException.
C28_RangeFallbackFails ==
    /\ C28_ItemRead
    /\ (op = "range" /\ C28_Item /\ ~C28_IsSpan) => out = MatchFailure
    /\ (op = "parse" /\ C28_Item /\ ~C28_IsSpan) =>
          IsRaise(out) /\ out.exc = "MatchFailureException"

\* matchRangeInternal on [c-a] has consumed c alone
C28_Witness ==
    /\ op = "rangeinternal"
    /\ text = <<"[", "c", "-", "a", "]">>
    /\ C28_Item
    /\ ~C28_IsSpan
    /\ out = Ok(<<"c">>, 2)
    /\ charclass_matchRange(text, 0) = MatchFailure

(***************************************************************************)
(* The shape of what reduce() returns                                      *)
(***************************************************************************)
\* the term is none of the shapes that reduce() rewrites at the top
C29_Normal(term) ==
    /\ term.k = "conc" => Len(term.mults) # 1
    /\ term.k = "pattern" => Cardinality(term.concs) # 1
    /\ term.k = "mult" => term.multiplier \notin {one, zero}
    /\ term.k = "conc" =>
          \A i \in 1..(Len(term.mults) - 1) :
              term.mults[i].multiplicand # term.mults[i + 1].multiplicand

\* C29: reduced terms are in normal form.  What reduce() returns is never a
\* conc of exactly one mult, never a pattern of exactly one conc, never a
\* mult whose multiplier is one or zero, and never a conc with two adjacent
\* mults of equal multiplicands.
C29_NormalForm ==
    (op = "reduce" /\ ~IsRaise(out)) => C29_Normal(out)

\* the conc of the one mult a? has been returned as the mult, and the conc
\* a a? as the one mult a{1,2}
C29_Witness ==
    /\ op = "reduce"
    /\ \/ /\ arg1 = conc(<<mult(charclass({"a"}, FALSE), qm)>>)
          /\ out = mult(charclass({"a"}, FALSE), qm)
       \/ /\ arg1 = conc(<<mult(charclass({"a"}, FALSE), one), mult(charclass({"a"}, FALSE), qm)>>)
          /\ out = mult(charclass({"a"}, FALSE), multiplier(Fin(1), Fin(2)))
    /\ ~C29_Normal(arg1)
    /\ C29_Normal(out)

(***************************************************************************)
(* Specification SpecCommon: two multipliers A and B, then C = A & B, then *)
(* A - C, then (A - C) + C, as _multprefix and _multsuffix compute them    *)
(***************************************************************************)
\* arg1 - (arg1 & arg2)
SubtractCommon ==
    /\ op = "and"
    /\ op' = "andsub"
    /\ out' = multiplier_sub(arg1, out)
    /\ UNCHANGED <<arg1, arg2, text>>

\* (arg1 - (arg1 & arg2)) + (arg1 & arg2)
AddCommon ==
    /\ op = "andsub"
    /\ ~IsRaise(out)
    /\ op' = "andsubadd"
    /\ out' = multiplier_add(out, multiplier_and(arg1, arg2))
    /\ UNCHANGED <<arg1, arg2, text>>

NextCommon ==
    \/ MultiplierAnd
    \/ SubtractCommon
    \/ AddCommon

SpecCommon == InitMultiplier /\ [][NextCommon]_vars

\* C30: the arithmetic of the factoring is always defined and exact.  For
\* all multipliers A and B, star, plus and inf included, with C = A & B the
\* subtraction A - C does not raise and (A - C) + C is A.
C30_FactoringArithmetic ==
    /\ op = "andsub" => ~IsRaise(out)
    /\ op = "andsubadd" => out = arg1

====
